---- MODULE Spec2Model ----
(***************************************************************************)
(* A model of the emergency-lighting extraction pipeline of AI-Vision:     *)
(* the fixture classifier (app/vision/enhanced_llm_classifier.py) with its *)
(* external path and its local fallback, and the page loop of the task     *)
(* (app/tasks.py) with the detector, the OCR processor and the text        *)
(* association that feed it.  The detector's merge step, its IoU, its      *)
(* detection entry point and the text association are also called         *)
(* directly, each under a specification of its own (MergeSpec, IouSpec,    *)
(* DetectSpec, AssociateSpec).                                             *)
(*                                                                         *)
(* Python values are modelled as follows.                                  *)
(*   str   a TLA+ string                                                   *)
(*   dict  a function whose domain is the set of keys that are present    *)
(*   list  a sequence                                                      *)
(*   set   a set; the order in which Python iterates over a set of str    *)
(*         depends on the interpreter's per-process string hash seed, so  *)
(*         every operator that iterates over a set takes the order as a   *)
(*         parameter (hash_order: the strings listed in iteration order)  *)
(*   float a confidence, counted in units of 1/120000; an IoU, kept as    *)
(*         the fraction [num, den] and compared by cross-multiplication   *)
(*   None  the string "<None>", which no text of a page can be            *)
(***************************************************************************)
EXTENDS Integers, Sequences, FiniteSets, TLC

\* ------------------------------------------------------------------ bounds
\* Longest detection list handed to the classifier.
MaxDetections == 2
\* Longest reply of the external service, in fragments.
MaxResponseLen == 3

VARIABLES
    api_key,         \* EnhancedLLMClassifier.api_key, as a capability flag
    detections,      \* argument of classify_and_group / _fallback_grouping
    static_content,  \* argument of classify_and_group / _fallback_grouping
    pc,              \* where the running call stands
    calls,           \* number of requests.post calls made so far
    response,        \* text returned by the external service
    result,          \* value returned by classify_and_group_emergency_lighting
    outcome,         \* "returned" or "raised": how the call ended
    call_error,      \* the exception the request raised, "none" when it did not
    run1,            \* value returned by a first direct _fallback_grouping run
    run2,            \* value returned by a second run on the same arguments
    pdf,             \* the uploaded document process_blueprint_task is given
    all_emergency_detections,  \* the task's list of the fixtures of all pages
    ocr_data,        \* the combined OCR data the task hands to the classifier
    input_image,         \* argument of detect_shaded_rectangular_areas
    all_detections,      \* argument of _merge_overlapping_detections
    merged_detections,   \* value returned by the detector's call
    remerged_detections, \* value of _merge_overlapping_detections on its own output
    box_a,               \* first argument of _calculate_iou
    box_b,               \* second argument of _calculate_iou
    iou_ab,              \* _calculate_iou(bbox1, bbox2)
    iou_ba,              \* _calculate_iou(bbox2, bbox1)
    cv_fixtures,         \* first argument of associate_text_with_fixtures
    ocr_text,            \* second argument of associate_text_with_fixtures
    association,         \* value returned by associate_text_with_fixtures
    nearby,              \* the nearby text found for a fixture (line 45)
    labelled,            \* the associated fixture built from it (lines 47-60)
    processing_result,   \* the ProcessingResult row of the upload, NoResult when none
    temp_file,           \* whether the uploaded file is in temp_uploads
    queue,               \* whether the task's message waits in the broker
    api_pc,              \* position of upload_blueprint
    result_record,       \* the task's local variable: "unbound", "none" or "bound"
    task_end             \* how the task ended: "none", "returned" or "raised"

vars == <<api_key, detections, static_content, pc, calls, response, result,
          outcome, call_error, run1, run2, pdf, all_emergency_detections, ocr_data,
          input_image, all_detections, merged_detections, remerged_detections,
          box_a, box_b, iou_ab, iou_ba,
          cv_fixtures, ocr_text, association, nearby, labelled,
          processing_result, temp_file, queue, api_pc, result_record, task_end>>

\* The variables of the detector's calls.
detector_vars == <<input_image, all_detections, merged_detections, remerged_detections,
                   box_a, box_b, iou_ab, iou_ba>>

\* The variables of a call of associate_text_with_fixtures.
association_vars == <<cv_fixtures, ocr_text, association>>

\* The variables of one pass of its loop body after the nearby text is found.
label_vars == <<nearby, labelled>>

\* The variables of the classifier's calls.
classifier_vars == <<api_key, detections, static_content, calls, response, result,
                     outcome, call_error, run1, run2>>

\* The variables of an upload and of the record its task keeps.
job_vars == <<processing_result, temp_file, queue, api_pc, result_record, task_end>>

\* The variables of process_blueprint_task.
task_vars == <<pdf, all_emergency_detections, ocr_data>>

\* ------------------------------------------------------- Python primitives
\* dict.get(key, default)
Get(d, key, default) == IF key \in DOMAIN d THEN d[key] ELSE default

\* The value of a variable that holds no result yet.
NoResult == [none |-> TRUE]

\* No call of the detector has been made: its arguments and results are unset.
DetectorIdle ==
    /\ input_image = NoResult
    /\ all_detections = NoResult
    /\ merged_detections = NoResult
    /\ remerged_detections = NoResult
    /\ box_a = NoResult
    /\ box_b = NoResult
    /\ iou_ab = NoResult
    /\ iou_ba = NoResult

\* No call of associate_text_with_fixtures has been made.
AssociationIdle ==
    /\ cv_fixtures = NoResult
    /\ ocr_text = NoResult
    /\ association = NoResult

\* The loop body has not been entered.
LabelIdle ==
    /\ nearby = NoResult
    /\ labelled = NoResult

\* No file has been uploaded.
JobIdle ==
    /\ processing_result = NoResult
    /\ temp_file = NoResult
    /\ queue = NoResult
    /\ api_pc = NoResult
    /\ result_record = NoResult
    /\ task_end = NoResult

\* All sequences over S of length at most n.
SeqsUpTo(S, n) == UNION {[1..k -> S] : k \in 0..n}

\* All orders in which a finite set can be listed.
Orders(S) == {s \in [1..Cardinality(S) -> S] : \A a \in S : \E i \in DOMAIN s : s[i] = a}

\* list(a_set): the members of S in the iteration order of the interpreter.
ListOfSet(S, hash_order) == SelectSeq(hash_order, LAMBDA a : a \in S)

LowerLetters == "abcdefghijklmnopqrstuvwxyz"
UpperLetters == "ABCDEFGHIJKLMNOPQRSTUVWXYZ"

CharAt(s, i) == SubSeq(s, i, i)

\* Position of character c in alphabet, 0 when it is not there.
IndexIn(c, alphabet) ==
    IF \E i \in 1..Len(alphabet) : CharAt(alphabet, i) = c
    THEN CHOOSE i \in 1..Len(alphabet) : CharAt(alphabet, i) = c
    ELSE 0

IsLetter(c) == IndexIn(c, LowerLetters) > 0 \/ IndexIn(c, UpperLetters) > 0

UpperChar(c) ==
    LET i == IndexIn(c, LowerLetters)
    IN  IF i > 0 THEN CharAt(UpperLetters, i) ELSE c

LowerChar(c) ==
    LET i == IndexIn(c, UpperLetters)
    IN  IF i > 0 THEN CharAt(LowerLetters, i) ELSE c

\* str.replace(old, new) for single characters.
RECURSIVE ReplaceChar(_, _, _)
ReplaceChar(s, old, new) ==
    IF s = "" THEN ""
    ELSE (IF Head(s) = old THEN new ELSE Head(s)) \o ReplaceChar(Tail(s), old, new)

\* str.title(): a letter that follows a non-letter is upper-cased, every other
\* letter is lower-cased.
RECURSIVE TitleFrom(_, _)
TitleFrom(s, after_letter) ==
    IF s = "" THEN ""
    ELSE LET c == Head(s)
         IN  (IF after_letter THEN LowerChar(c) ELSE UpperChar(c))
                 \o TitleFrom(Tail(s), IsLetter(c))

Title(s) == TitleFrom(s, FALSE)

\* f"{i:02d}"
Format02d(i) == IF i < 10 THEN "0" \o ToString(i) ELSE ToString(i)

\* str.upper()
RECURSIVE Upper(_)
Upper(s) == IF s = "" THEN "" ELSE UpperChar(Head(s)) \o Upper(Tail(s))

\* The characters str.strip() removes and \s matches.
Whitespace == " \t\n\r\f"

IsSpace(c) == IndexIn(c, Whitespace) > 0

RECURSIVE LStrip(_)
LStrip(s) == IF s # "" /\ IsSpace(Head(s)) THEN LStrip(Tail(s)) ELSE s

RECURSIVE RStrip(_)
RStrip(s) ==
    IF s # "" /\ IsSpace(CharAt(s, Len(s))) THEN RStrip(SubSeq(s, 1, Len(s) - 1)) ELSE s

\* str.strip()
Strip(s) == RStrip(LStrip(s))

\* sep.join(parts)
RECURSIVE Join(_, _)
Join(parts, sep) ==
    IF parts = <<>> THEN ""
    ELSE IF Len(parts) = 1 THEN parts[1]
    ELSE parts[1] \o sep \o Join(Tail(parts), sep)

\* needle in haystack, for strings
Contains(haystack, needle) ==
    \E i \in 1..(Len(haystack) - Len(needle) + 1) :
        SubSeq(haystack, i, i + Len(needle) - 1) = needle

\* ------------------------------------------------------ regular expressions
\* A pattern is a sequence of alternatives, tried in order; an alternative is
\* a sequence of atoms; an atom is a set of characters (chars) repeated
\* between min and max times, greedily. Every pattern of the program has
\* this form.
Unbounded == 1000000

Digits == "0123456789"

\* a literal text
RECURSIVE Lit(_)
Lit(text) ==
    IF text = "" THEN <<>>
    ELSE <<[chars |-> Head(text), min |-> 1, max |-> 1]>> \o Lit(Tail(text))

\* [chars]
OneOf(chars) == <<[chars |-> chars, min |-> 1, max |-> 1]>>
\* [chars]?
Optional(chars) == <<[chars |-> chars, min |-> 0, max |-> 1]>>
\* [chars]*
ZeroOrMore(chars) == <<[chars |-> chars, min |-> 0, max |-> Unbounded]>>
\* [chars]+
OneOrMore(chars) == <<[chars |-> chars, min |-> 1, max |-> Unbounded]>>

\* Whether character c is in the atom's set; with re.IGNORECASE the case of
\* letters is not told apart.
InClass(c, chars, ignore_case) ==
    \/ IndexIn(c, chars) > 0
    \/ ignore_case /\ (IndexIn(UpperChar(c), chars) > 0 \/ IndexIn(LowerChar(c), chars) > 0)

\* The number of characters of s from position i on that are in the set, at
\* most limit.
RECURSIVE RunLength(_, _, _, _, _)
RunLength(s, i, chars, ignore_case, limit) ==
    IF limit = 0 \/ i > Len(s) \/ ~InClass(CharAt(s, i), chars, ignore_case) THEN 0
    ELSE 1 + RunLength(s, i + 1, chars, ignore_case, limit - 1)

\* The first attempt's end when it matched, else the next attempt's.
OrElse(end, next_attempt) == IF end # -1 THEN end ELSE next_attempt

\* The backtracking matcher: the position after the match of atoms k.. of an
\* alternative at position i of s, or -1 when there is none.
RECURSIVE MatchAtoms(_, _, _, _, _)
RECURSIVE TryCounts(_, _, _, _, _, _)
MatchAtoms(atoms, k, s, i, ignore_case) ==
    IF k > Len(atoms) THEN i
    ELSE TryCounts(atoms, k, s, i, ignore_case,
                   RunLength(s, i, atoms[k].chars, ignore_case, atoms[k].max))

TryCounts(atoms, k, s, i, ignore_case, n) ==
    IF n < atoms[k].min THEN -1
    ELSE OrElse(MatchAtoms(atoms, k + 1, s, i + n, ignore_case),
                TryCounts(atoms, k, s, i, ignore_case, n - 1))

\* The position after the match of the pattern at position i: that of its
\* first alternative that matches there, or -1.
RECURSIVE MatchAt(_, _, _, _)
MatchAt(pattern, s, i, ignore_case) ==
    IF pattern = <<>> THEN -1
    ELSE OrElse(MatchAtoms(Head(pattern), 1, s, i, ignore_case),
                MatchAt(Tail(pattern), s, i, ignore_case))

\* re.search from position i on: the leftmost match as [start, end) or
\* NoMatch.
NoMatch == [start |-> 0, end |-> 0]

\* The match from i to end when there is one, else the next attempt's.
MatchOrElse(i, end, next_attempt) ==
    IF end # -1 THEN [start |-> i, end |-> end] ELSE next_attempt

RECURSIVE SearchFrom(_, _, _, _)
SearchFrom(pattern, s, i, ignore_case) ==
    IF i > Len(s) + 1 THEN NoMatch
    ELSE MatchOrElse(i, MatchAt(pattern, s, i, ignore_case),
                     SearchFrom(pattern, s, i + 1, ignore_case))

\* re.search(pattern, s) is not None
Matches(pattern, s, ignore_case) == SearchFrom(pattern, s, 1, ignore_case) # NoMatch

\* re.search(pattern, s).group(), "" when there is no match
MatchedText(s, m) == IF m = NoMatch THEN "" ELSE SubSeq(s, m.start, m.end - 1)

MatchGroup(pattern, s, ignore_case) ==
    MatchedText(s, SearchFrom(pattern, s, 1, ignore_case))

\* re.findall(pattern, s) for a pattern without groups that matches no empty
\* text: the non-overlapping matches from left to right.
RECURSIVE FindAllFrom(_, _, _)
RECURSIVE MatchAndRest(_, _, _)
MatchAndRest(pattern, s, m) ==
    IF m = NoMatch THEN <<>>
    ELSE <<MatchedText(s, m)>> \o FindAllFrom(pattern, s, m.end)

FindAllFrom(pattern, s, i) == MatchAndRest(pattern, s, SearchFrom(pattern, s, i, FALSE))

FindAll(pattern, s) == FindAllFrom(pattern, s, 1)

\* The patterns of TextAssociation.emergency_patterns and of
\* EnhancedEmergencyLightingDetector.emergency_patterns (the same), in the
\* order of the dict.
PatternTypes == <<"recessed_led", "wallpack", "emergency_exit", "emergency_light", "photocell">>

Quotes == "'\""

EmergencyPatterns ==
    [recessed_led |->
        <<Lit("2") \o ZeroOrMore(Whitespace) \o Optional(Quotes) \o ZeroOrMore(Whitespace)
              \o OneOf("xX") \o ZeroOrMore(Whitespace) \o Lit("4") \o ZeroOrMore(Whitespace)
              \o Optional(Quotes) \o ZeroOrMore(Whitespace) \o Lit("RECESSED")
              \o ZeroOrMore(Whitespace) \o Lit("LED"),
          Lit("LED") \o ZeroOrMore(Whitespace) \o Lit("LUMINAIRE")>>,
     wallpack |->
        <<Lit("WALLPACK"),
          Lit("WALL") \o ZeroOrMore(Whitespace) \o Lit("PACK"),
          Lit("WALL") \o ZeroOrMore(Whitespace) \o Lit("MOUNTED")>>,
     emergency_exit |->
        <<Lit("EXIT"),
          Lit("EMERGENCY") \o ZeroOrMore(Whitespace) \o Lit("EXIT"),
          Lit("A1E"),
          Lit("A") \o OneOrMore(Digits) \o Lit("E")>>,
     emergency_light |->
        <<Lit("EMERGENCY"),
          Lit("EM"),
          Lit("EL") \o OneOrMore(Digits),
          Lit("E") \o OneOrMore(Digits)>>,
     photocell |->
        <<Lit("PHOTOCELL"),
          Lit("PHOTO") \o ZeroOrMore(Whitespace) \o Lit("CELL")>>]

\* ---------------------------------------------------------------- detector
\* Confidences are counted in units of 1/120000, in which every quotient the
\* program computes (area / 8000, area / 10000, area / 12000, conf / 100.0)
\* and every constant it compares with (0.9, 0.85, 0.8, 0.7) is a whole
\* number: 0.8 is 96000.

Min(a, b) == IF a < b THEN a ELSE b
Max(a, b) == IF a > b THEN a ELSE b

\* dict.update: the entries of more replace and extend those of d.
Update(d, more) ==
    [k \in DOMAIN d \cup DOMAIN more |-> IF k \in DOMAIN more THEN more[k] ELSE d[k]]

\* What an image is to the program: the contours cv2.findContours gives each
\* strategy, as [area, x, y, w, h] with the area of cv2.contourArea and the
\* rectangle of cv2.boundingRect; the strategy whose cv2 calls raise, if any;
\* and the words pytesseract.image_to_data reads, as [text, left, top, width,
\* height, conf].

\* The filters and the confidence of the three strategies: the area is
\* strictly between min_area and max_area, w / h is between ratio_low / 10
\* and ratio_high / 10, and the confidence is min(area / divisor, cap), that
\* is min(per_area * area, cap) in units of 1/120000.
Strategies ==
    <<[method |-> "adaptive_threshold", min_area |-> 500, max_area |-> 50000,
       ratio_low |-> 3, ratio_high |-> 30, per_area |-> 12, cap |-> 108000],
      [method |-> "otsu_threshold", min_area |-> 1000, max_area |-> 30000,
       ratio_low |-> 5, ratio_high |-> 25, per_area |-> 15, cap |-> 102000],
      [method |-> "edge_detection", min_area |-> 800, max_area |-> 40000,
       ratio_low |-> 4, ratio_high |-> 28, per_area |-> 10, cap |-> 96000]>>

\* The if conditions of a strategy's loop over the contours.
KeepsContour(strategy, contour) ==
    /\ strategy.min_area < contour.area
    /\ contour.area < strategy.max_area
    /\ strategy.ratio_low * contour.h <= 10 * contour.w
    /\ 10 * contour.w <= strategy.ratio_high * contour.h

\* The dict a strategy appends for a contour it keeps.
CandidateOf(strategy, contour) ==
    [bounding_box |-> <<contour.x, contour.y, contour.x + contour.w, contour.y + contour.h>>,
     confidence |-> Min(strategy.per_area * contour.area, strategy.cap),
     method |-> strategy.method,
     area |-> contour.area]

\* _detect_by_adaptive_threshold, _detect_by_otsu_threshold and
\* _detect_by_edge_detection on the contours the strategy finds.
RECURSIVE DetectBy(_, _)
DetectBy(strategy, contours) ==
    IF contours = <<>> THEN <<>>
    ELSE (IF KeepsContour(strategy, Head(contours))
          THEN <<CandidateOf(strategy, Head(contours))>> ELSE <<>>)
         \o DetectBy(strategy, Tail(contours))

\* The intersection over the area of the first box alone.
IouOverFirstBox(bbox1, bbox2) ==
    LET x1_i == Max(bbox1[1], bbox2[1])
        y1_i == Max(bbox1[2], bbox2[2])
        x2_i == Min(bbox1[3], bbox2[3])
        y2_i == Min(bbox1[4], bbox2[4])
        area1 == (bbox1[3] - bbox1[1]) * (bbox1[4] - bbox1[2])
    IN  IF x2_i <= x1_i \/ y2_i <= y1_i THEN [num |-> 0, den |-> 1]
        ELSE [num |-> (x2_i - x1_i) * (y2_i - y1_i), den |-> area1]

\* _calculate_iou, as the fraction num / den.
CalculateIou(bbox1, bbox2) ==
    LET x1_i == Max(bbox1[1], bbox2[1])
        y1_i == Max(bbox1[2], bbox2[2])
        x2_i == Min(bbox1[3], bbox2[3])
        y2_i == Min(bbox1[4], bbox2[4])
        intersection == (x2_i - x1_i) * (y2_i - y1_i)
        area1 == (bbox1[3] - bbox1[1]) * (bbox1[4] - bbox1[2])
        area2 == (bbox2[3] - bbox2[1]) * (bbox2[4] - bbox2[2])
        union == area1 + area2 - intersection
    IN  IF x2_i <= x1_i \/ y2_i <= y1_i THEN [num |-> 0, den |-> 1]
        ELSE IF union > 0 THEN [num |-> intersection, den |-> union]
        ELSE [num |-> 0, den |-> 1]

\* iou >= 0.3
OverlapsAtThreshold(bbox1, bbox2) ==
    LET iou == CalculateIou(bbox1, bbox2) IN 10 * iou.num >= 3 * iou.den

\* iou > 0.3
Overlaps(bbox1, bbox2) ==
    LET iou == CalculateIou(bbox1, bbox2) IN 10 * iou.num > 3 * iou.den

\* detections.sort(key=confidence, reverse=True): stable, so detections of
\* equal confidence keep their order.
RECURSIVE InsertByConfidence(_, _)
InsertByConfidence(sorted, d) ==
    IF sorted = <<>> THEN <<d>>
    ELSE IF Head(sorted).confidence >= d.confidence
         THEN <<Head(sorted)>> \o InsertByConfidence(Tail(sorted), d)
         ELSE <<d>> \o sorted

\* The detections left in the order they came in.
Unsorted(dets) == dets

RECURSIVE SortByConfidence(_)
SortByConfidence(dets) ==
    IF dets = <<>> THEN <<>>
    ELSE InsertByConfidence(SortByConfidence(SubSeq(dets, 1, Len(dets) - 1)), dets[Len(dets)])

\* The last member of the lowest confidence.
LeastConfident(group) ==
    LET worst == CHOOSE i \in DOMAIN group :
                     /\ \A j \in DOMAIN group : group[i].confidence <= group[j].confidence
                     /\ \A j \in (i + 1)..Len(group) : group[i].confidence < group[j].confidence
    IN  group[worst]

\* max(group, key=confidence): the first member of the highest confidence.
FirstMax(group) ==
    LET best == CHOOSE i \in DOMAIN group :
                    /\ \A j \in DOMAIN group : group[j].confidence <= group[i].confidence
                    /\ \A j \in 1..(i - 1) : group[j].confidence < group[i].confidence
    IN  group[best]

\* The elements of seq at the indexes in S, in the order of seq.
AtIndexes(seq, S) ==
    LET upto[k \in 0..Len(seq)] ==
            IF k = 0 THEN <<>>
            ELSE IF k \in S THEN Append(upto[k - 1], seq[k]) ELSE upto[k - 1]
    IN  upto[Len(seq)]

\* The loop with each kept detection put in front of the merged list.
RECURSIVE MergePrepending(_, _, _, _)
MergePrepending(sorted, i, used, merged) ==
    IF i > Len(sorted) THEN merged
    ELSE IF i \in used THEN MergePrepending(sorted, i + 1, used, merged)
    ELSE LET others == {j \in (i + 1)..Len(sorted) :
                           /\ j \notin used
                           /\ Overlaps(sorted[i].bounding_box, sorted[j].bounding_box)}
         IN  MergePrepending(sorted, i + 1, used \cup {i} \cup others,
                             <<sorted[i]>> \o merged)

\* The loop of _merge_overlapping_detections from index i on.
RECURSIVE MergeFrom(_, _, _, _)
MergeFrom(sorted, i, used, merged) ==
    IF i > Len(sorted) THEN merged
    ELSE IF i \in used THEN MergeFrom(sorted, i + 1, used, merged)
    ELSE LET others == {j \in (i + 1)..Len(sorted) :
                           /\ j \notin used
                           /\ Overlaps(sorted[i].bounding_box, sorted[j].bounding_box)}
             merged_group == <<sorted[i]>> \o AtIndexes(sorted, others)
             kept == IF Len(merged_group) > 1 THEN FirstMax(merged_group) ELSE sorted[i]
         IN  MergeFrom(sorted, i + 1, used \cup {i} \cup others, Append(merged, kept))

\* _merge_overlapping_detections
MergeOverlappingDetections(dets) ==
    IF dets = <<>> THEN <<>> ELSE MergeFrom(SortByConfidence(dets), 1, {}, <<>>)

\* The strategies that ran before the one that raised keep their
\* candidates; the one that raised and those after it add nothing.
DetectKeepingEarlier(image) ==
    LET found(s) ==
            IF \E t \in 1..s : image.raises = Strategies[t].method THEN <<>>
            ELSE DetectBy(Strategies[s], image.contours[Strategies[s].method])
    IN  MergeOverlappingDetections(found(1) \o found(2) \o found(3))

\* Only the strategy that raised adds nothing.
DetectSkippingFailure(image) ==
    LET found(s) ==
            IF image.raises = Strategies[s].method THEN <<>>
            ELSE DetectBy(Strategies[s], image.contours[Strategies[s].method])
    IN  MergeOverlappingDetections(found(1) \o found(2) \o found(3))

\* detect_shaded_rectangular_areas: the candidates of the three strategies
\* in turn, merged; an empty list when anything raises.
DetectShadedRectangularAreas(image) ==
    IF image.raises # "none" THEN <<>>
    ELSE MergeOverlappingDetections(
             DetectBy(Strategies[1], image.contours.adaptive_threshold)
             \o DetectBy(Strategies[2], image.contours.otsu_threshold)
             \o DetectBy(Strategies[3], image.contours.edge_detection))

\* The first fixture type, in the order of the dict, whose pattern is found
\* in the text; "" when none is.
RECURSIVE FirstTypeFrom(_, _)
FirstTypeFrom(k, text) ==
    IF k > Len(PatternTypes) THEN ""
    ELSE IF Matches(EmergencyPatterns[PatternTypes[k]], text, TRUE) THEN PatternTypes[k]
    ELSE FirstTypeFrom(k + 1, text)

\* The last fixture type, in the order of the dict, whose pattern is found.
LastMatchingType(text) ==
    LET matching == {k \in DOMAIN PatternTypes :
                        Matches(EmergencyPatterns[PatternTypes[k]], text, TRUE)}
    IN  IF matching = {} THEN ""
        ELSE PatternTypes[CHOOSE k \in matching : \A j \in matching : j <= k]

FirstMatchingType(text) == FirstTypeFrom(1, text)

\* symbol_patterns of classify_emergency_fixture_type
ClassifierSymbolPatterns ==
    <<<<Lit("EL") \o OneOrMore(Digits)>>,
      <<Lit("A") \o OneOrMore(Digits) \o Optional("E")>>,
      <<Lit("E") \o OneOrMore(Digits)>>,
      <<OneOf(UpperLetters) \o OneOrMore(Digits)>>>>

\* The match of the first of the patterns found in the text; "" when none is.
RECURSIVE FirstSymbolFrom(_, _, _)
FirstSymbolFrom(patterns, k, text) ==
    IF k > Len(patterns) THEN ""
    ELSE IF Matches(patterns[k], text, FALSE) THEN MatchGroup(patterns[k], text, FALSE)
    ELSE FirstSymbolFrom(patterns, k + 1, text)

\* The description classify_emergency_fixture_type gives a fixture type.
TypeDescription(fixture_type) ==
    CASE fixture_type = "recessed_led" -> "2' X 4' RECESSED LED LUMINAIRE"
      [] fixture_type = "wallpack" -> "WALLPACK WITH BUILT IN PHOTOCELL"
      [] fixture_type = "emergency_exit" -> "Exit/Emergency Combo Unit"
      [] fixture_type = "emergency_light" -> "Emergency Lighting Fixture"
      [] OTHER -> ""

\* classify_emergency_fixture_type
ClassifyEmergencyFixtureType(text_nearby) ==
    LET combined_text == Upper(Join(text_nearby, " "))
        fixture_type == FirstMatchingType(combined_text)
    IN  [type |-> IF fixture_type = "" THEN "unknown" ELSE fixture_type,
         confidence |-> IF fixture_type = "" THEN 0 ELSE 96000,
         description |-> TypeDescription(fixture_type),
         symbol |-> FirstSymbolFrom(ClassifierSymbolPatterns, 1, combined_text)]

\* The text process_image classifies each detection by: none.
PlaceholderText == <<>>

\* The loop of process_image: each detection is copied and updated with the
\* classification of the placeholder text.
ClassifiedDetections(emergency_detections) ==
    [i \in DOMAIN emergency_detections |->
        Update(emergency_detections[i], ClassifyEmergencyFixtureType(PlaceholderText))]

\* EnhancedEmergencyLightingDetector.process_image; detection_methods, read
\* by no caller, is left out.
DetectorProcessImage(image) ==
    LET classified_detections == ClassifiedDetections(DetectShadedRectangularAreas(image))
    IN  [emergency_fixtures |-> classified_detections,
         total_detections |-> Len(classified_detections)]

\* ----------------------------------------------------------- OCR processor
\* OCRProcessor.emergency_symbols
OcrEmergencySymbols == <<"EL", "A1", "A1E", "A2", "A2E", "W", "E1", "E2", "EM", "EXIT">>

\* Whether any of the keywords is in the text.
ContainsAny(text, keywords) == \E k \in DOMAIN keywords : Contains(text, keywords[k])

\* _extract_all_text: the words of confidence over 30 that are not blank.
RECURSIVE ExtractAllText(_)
ExtractAllText(words) ==
    IF words = <<>> THEN <<>>
    ELSE LET word == Head(words)
         IN  (IF word.conf > 30 /\ Strip(word.text) # ""
              THEN <<[text |-> Strip(word.text),
                      bounding_box |-> <<word.left, word.top,
                                         word.left + word.width, word.top + word.height>>,
                      confidence |-> 1200 * word.conf]>>
              ELSE <<>>)
             \o ExtractAllText(Tail(words))

\* The dict _extract_emergency_symbols appends for a symbol of a text block.
SymbolOf(symbol, text_block) ==
    [symbol |-> symbol, text |-> text_block.text,
     bounding_box |-> text_block.bounding_box, confidence |-> text_block.confidence]

\* The first of the emergency symbols that is in the text, as a list of one;
\* empty when none is.
RECURSIVE FirstListedSymbol(_, _)
FirstListedSymbol(k, text) ==
    IF k > Len(OcrEmergencySymbols) THEN <<>>
    ELSE IF Contains(text, OcrEmergencySymbols[k]) THEN <<OcrEmergencySymbols[k]>>
    ELSE FirstListedSymbol(k + 1, text)

ElPattern == <<Lit("EL") \o OneOrMore(Digits)>>

\* _extract_emergency_symbols
RECURSIVE ExtractEmergencySymbols(_)
ExtractEmergencySymbols(all_text) ==
    IF all_text = <<>> THEN <<>>
    ELSE LET text_block == Head(all_text)
             text == Upper(text_block.text)
             listed == FirstListedSymbol(1, text)
         IN  (IF listed # <<>> THEN <<SymbolOf(listed[1], text_block)>> ELSE <<>>)
             \o (IF Matches(ElPattern, text, FALSE)
                 THEN <<SymbolOf(MatchGroup(ElPattern, text, FALSE), text_block)>>
                 ELSE <<>>)
             \o ExtractEmergencySymbols(Tail(all_text))

Abs(n) == IF n < 0 THEN -n ELSE n

\* Lines 142-161: the blocks are cut into rows; a block joins the current
\* row when its top is within row_threshold, 20, of the row's first block.
RECURSIVE GroupRows(_, _, _)
GroupRows(blocks, rows, current_row) ==
    IF blocks = <<>> THEN (IF current_row # <<>> THEN Append(rows, current_row) ELSE rows)
    ELSE LET text_block == Head(blocks)
         IN  IF current_row = <<>> THEN GroupRows(Tail(blocks), rows, <<text_block>>)
             ELSE IF Abs(text_block.bounding_box[2] - current_row[1].bounding_box[2]) <= 20
                  THEN GroupRows(Tail(blocks), rows, Append(current_row, text_block))
                  ELSE GroupRows(Tail(blocks), Append(rows, current_row), <<text_block>>)

\* row.sort(key=x): stable
RECURSIVE InsertByLeft(_, _)
InsertByLeft(sorted, block) ==
    IF sorted = <<>> THEN <<block>>
    ELSE IF Head(sorted).bounding_box[1] <= block.bounding_box[1]
         THEN <<Head(sorted)>> \o InsertByLeft(Tail(sorted), block)
         ELSE <<block>> \o sorted

RECURSIVE SortByLeft(_)
SortByLeft(row) ==
    IF row = <<>> THEN <<>>
    ELSE InsertByLeft(SortByLeft(SubSeq(row, 1, Len(row) - 1)), row[Len(row)])

\* The texts of the blocks of a row, joined by spaces.
RowText(row) == Join([i \in DOMAIN row |-> row[i].text], " ")

\* The text of the first block of the row that holds one of the keywords.
RECURSIVE FirstBlockWith(_, _)
FirstBlockWith(row, keywords) ==
    IF row = <<>> THEN ""
    ELSE IF ContainsAny(Upper(Head(row).text), keywords) THEN Head(row).text
    ELSE FirstBlockWith(Tail(row), keywords)

VoltagePattern == <<OneOrMore(Digits) \o Lit("V")>>
LumensPattern == <<OneOrMore(Digits) \o Lit("lm")>>

\* _parse_table_row, for a row of two blocks or more.
ParseTableRow(row) ==
    [symbol |-> row[1].text,
     description |-> FirstBlockWith(row, <<"LUMINAIRE", "FIXTURE", "LIGHT", "EMERGENCY">>),
     mount |-> FirstBlockWith(row, <<"CEILING", "WALL", "RECESSED", "SURFACE">>),
     voltage |-> MatchGroup(VoltagePattern, RowText(row), FALSE),
     lumens |-> MatchGroup(LumensPattern, RowText(row), FALSE),
     raw_text |-> RowText(row)]

\* Lines 164-176: the rows that mention the lighting schedule and parse.
RECURSIVE TableRows(_)
TableRows(rows) ==
    IF rows = <<>> THEN <<>>
    ELSE LET row == SortByLeft(Head(rows))
         IN  (IF /\ ContainsAny(Upper(RowText(row)),
                                <<"LUMINAIRE", "MOUNT", "VOLTAGE", "LUMENS">>)
                 /\ Len(row) >= 2
              THEN <<ParseTableRow(row)>> ELSE <<>>)
             \o TableRows(Tail(rows))

\* _extract_table_data
ExtractTableData(all_text) == TableRows(GroupRows(all_text, <<>>, <<>>))

\* _extract_general_notes: a block is a note for its keywords and again for
\* its length, over 50 characters at a confidence over 0.7.
RECURSIVE ExtractGeneralNotes(_)
ExtractGeneralNotes(all_text) ==
    IF all_text = <<>> THEN <<>>
    ELSE LET text_block == Head(all_text)
             text == text_block.text
         IN  (IF ContainsAny(Upper(text), <<"NOTE:", "GENERAL", "SPECIFICATION", "REQUIREMENT">>)
              THEN <<text>> ELSE <<>>)
             \o (IF Len(text) > 50 /\ text_block.confidence > 84000 THEN <<text>> ELSE <<>>)
             \o ExtractGeneralNotes(Tail(all_text))

\* OCRProcessor.process_image
OcrProcessImage(image) ==
    LET all_text == ExtractAllText(image.words)
    IN  [all_text |-> all_text,
         emergency_symbols |-> ExtractEmergencySymbols(all_text),
         table_data |-> ExtractTableData(all_text),
         general_notes |-> ExtractGeneralNotes(all_text)]

\* --------------------------------------------------------- text association
\* TextAssociation.distance_threshold
DistanceThreshold == 150

\* None
None == "<None>"

\* The characters of the texts in the order of their code points.
CodePoints ==
    "\t\n\f\r \"'(),-./0123456789:ABCDEFGHIJKLMNOPQRSTUVWXYZabcdefghijklmnopqrstuvwxyz"

\* a < b for strings
RECURSIVE StrLess(_, _)
StrLess(a, b) ==
    IF b = "" THEN FALSE
    ELSE IF a = "" THEN TRUE
    ELSE IF Head(a) = Head(b) THEN StrLess(Tail(a), Tail(b))
    ELSE IndexIn(Head(a), CodePoints) < IndexIn(Head(b), CodePoints)

\* The strings of S from the greatest down.
RECURSIVE SortedDescending(_)
SortedDescending(S) ==
    IF S = {} THEN <<>>
    ELSE LET greatest == CHOOSE a \in S : \A b \in S \ {a} : StrLess(b, a)
         IN  <<greatest>> \o SortedDescending(S \ {greatest})

\* sorted(S) for a set of strings
RECURSIVE SortStrings(_)
SortStrings(S) ==
    IF S = {} THEN <<>>
    ELSE LET least == CHOOSE a \in S : \A b \in S \ {a} : StrLess(a, b)
         IN  <<least>> \o SortStrings(S \ {least})

\* set(list)
SetOf(list) == {list[i] : i \in DOMAIN list}

\* The centre of a box, by floor division.
Center(bbox) == <<(bbox[1] + bbox[3]) \div 2, (bbox[2] + bbox[4]) \div 2>>

\* distance < distance_threshold
NearStrictly(c1, c2) ==
    (c1[1] - c2[1]) * (c1[1] - c2[1]) + (c1[2] - c2[2]) * (c1[2] - c2[2])
        < DistanceThreshold * DistanceThreshold

\* distance <= distance_threshold, for the distance of two centres
Near(c1, c2) ==
    (c1[1] - c2[1]) * (c1[1] - c2[1]) + (c1[2] - c2[2]) * (c1[2] - c2[2])
        <= DistanceThreshold * DistanceThreshold

\* _find_nearby_text: the stripped, non-empty texts of the blocks with a box
\* of four whose centre is near the target's, in the order of the blocks.
RECURSIVE FindNearbyText(_, _)
FindNearbyText(target_bbox, text_blocks) ==
    IF text_blocks = <<>> THEN <<>>
    ELSE LET text_block == Head(text_blocks)
             text_bbox == Get(text_block, "bounding_box", <<>>)
         IN  (IF /\ Len(text_bbox) = 4
                 /\ Near(Center(target_bbox), Center(text_bbox))
                 /\ Strip(Get(text_block, "text", "")) # ""
              THEN <<Strip(Get(text_block, "text", ""))>> ELSE <<>>)
             \o FindNearbyText(target_bbox, Tail(text_blocks))

\* symbol_patterns of _extract_symbols_from_text
AssociationSymbolPatterns ==
    <<<<Lit("EL") \o OneOrMore(Digits)>>,
      <<Lit("A") \o OneOrMore(Digits) \o Optional("E")>>,
      <<Lit("E") \o OneOrMore(Digits)>>,
      <<OneOf(UpperLetters) \o OneOrMore(Digits)>>,
      <<Lit("EXIT")>>,
      <<Lit("EMERGENCY")>>,
      <<Lit("EM")>>>>

\* Lines 135-145: what one text adds to symbols, as a set.
SymbolsOfText(text) ==
    LET text_upper == Upper(text)
    IN  UNION {SetOf(FindAll(AssociationSymbolPatterns[k], text_upper)) :
                   k \in DOMAIN AssociationSymbolPatterns}
        \cup {MatchGroup(EmergencyPatterns[PatternTypes[k]], text_upper, TRUE) :
                  k \in {n \in DOMAIN PatternTypes :
                             Matches(EmergencyPatterns[PatternTypes[n]], text_upper, TRUE)}}

\* _extract_symbols_from_text: the symbols without duplicates, sorted.
ExtractSymbolsFromText(text_list) ==
    SortStrings(UNION {SymbolsOfText(text_list[i]) : i \in DOMAIN text_list})

\* Only the default classification, without the patterns.
ClassifyByDefaultOnly(text_list) ==
    IF \E i \in DOMAIN text_list : Contains(Upper(text_list[i]), "EXIT")
    THEN "emergency_exit"
    ELSE IF \E i \in DOMAIN text_list : Contains(Upper(text_list[i]), "EMERGENCY")
         THEN "emergency_light"
    ELSE "unknown"

\* _classify_fixture_type
ClassifyFixtureType(text_list) ==
    LET fixture_type == FirstMatchingType(Upper(Join(text_list, " ")))
    IN  IF fixture_type # "" THEN fixture_type
        ELSE IF \E i \in DOMAIN text_list : Contains(Upper(text_list[i]), "EXIT")
             THEN "emergency_exit"
        ELSE IF \E i \in DOMAIN text_list : Contains(Upper(text_list[i]), "EMERGENCY")
             THEN "emergency_light"
        ELSE "unknown"

\* Lines 53-60: the copy of a fixture, updated with its nearby text, the
\* symbols and the fixture type.
UpdatedFixture(fixture, nearby_text, symbols, fixture_type) ==
    Update(fixture,
           [text_nearby |-> nearby_text,
            symbols |-> symbols,
            fixture_type |-> fixture_type,
            primary_symbol |-> IF symbols # <<>> THEN symbols[1] ELSE None])

\* Lines 47-51: the symbols and the fixture type of the nearby text.
FixtureWithText(fixture, nearby_text) ==
    UpdatedFixture(fixture, nearby_text, ExtractSymbolsFromText(nearby_text),
                   ClassifyFixtureType(nearby_text))

\* Lines 45-60: one fixture of the loop of associate_text_with_fixtures.
AssociatedFixture(fixture, text_blocks) ==
    FixtureWithText(fixture, FindNearbyText(fixture.bounding_box, text_blocks))

\* The fixtures without a box of four are kept, with no text.
RECURSIVE AssociateKeepingMalformed(_, _)
AssociateKeepingMalformed(fixtures, text_blocks) ==
    IF fixtures = <<>> THEN <<>>
    ELSE <<IF Len(Get(Head(fixtures), "bounding_box", <<>>)) = 4
           THEN AssociatedFixture(Head(fixtures), text_blocks)
           ELSE UpdatedFixture(Head(fixtures), <<>>, <<>>, "unknown")>>
         \o AssociateKeepingMalformed(Tail(fixtures), text_blocks)

\* associate_text_with_fixtures: fixtures without a box of four are skipped.
RECURSIVE AssociateTextWithFixtures(_, _)
AssociateTextWithFixtures(fixtures, text_blocks) ==
    IF fixtures = <<>> THEN <<>>
    ELSE (IF Len(Get(Head(fixtures), "bounding_box", <<>>)) = 4
          THEN <<AssociatedFixture(Head(fixtures), text_blocks)>> ELSE <<>>)
         \o AssociateTextWithFixtures(Tail(fixtures), text_blocks)

\* ------------------------------------------------------- _fallback_grouping
\* The first loop: grouped_detections, a dict keyed by type, kept here as the
\* sequence of its entries in insertion order.
RECURSIVE GroupDetections(_, _)
GroupDetections(dets, grouped) ==
    IF dets = <<>> THEN grouped
    ELSE LET detection == Head(dets)
             fixture_type == Get(detection, "type", "unknown")
             symbol == Get(detection, "symbol", "Unknown")
             description == Get(detection, "description", "")
             known == \E i \in DOMAIN grouped : grouped[i].fixture_type = fixture_type
             g0 == IF known THEN grouped
                   ELSE Append(grouped, [fixture_type |-> fixture_type, count |-> 0,
                                         symbols |-> {}, descriptions |-> {}])
             k == CHOOSE i \in DOMAIN g0 : g0[i].fixture_type = fixture_type
             g1 == [g0 EXCEPT ![k].count = @ + 1,
                              ![k].symbols = @ \cup {symbol},
                              ![k].descriptions =
                                  IF description # "" THEN @ \cup {description} ELSE @]
         IN  GroupDetections(Tail(dets), g1)

\* The description of one summary group.
GroupDescription(group_data, hash_order) ==
    LET descriptions == ListOfSet(group_data.descriptions, hash_order)
    IN  IF descriptions # <<>> THEN descriptions[1]
        ELSE Title(ReplaceChar(group_data.fixture_type, "_", " ")) \o " Fixture"

\* A labelling that starts at 0.
GroupLabelFromZero(i) == "Lights" \o Format02d(i - 1)

\* The label of the i-th summary group.
GroupLabel(i) == "Lights" \o Format02d(i)

\* The second loop: the summary, a dict keyed by label, kept here as the
\* sequence of its entries in insertion order.
BuildSummary(grouped, hash_order) ==
    [i \in DOMAIN grouped |->
        [label |-> GroupLabel(i),
         count |-> grouped[i].count,
         description |-> GroupDescription(grouped[i], hash_order),
         symbols |-> ListOfSet(grouped[i].symbols, hash_order)]]

\* The third loop: one flat record per detection.
DetailedDetection(detection) ==
    [symbol |-> Get(detection, "symbol", "Unknown"),
     type |-> Get(detection, "type", "unknown"),
     description |-> Get(detection, "description", ""),
     bounding_box |-> Get(detection, "bounding_box", <<>>),
     text_nearby |-> Get(detection, "text_nearby", <<>>),
     source_sheet |-> Get(detection, "source_sheet", "Unknown"),
     confidence |-> Get(detection, "confidence", 0)]

\* A grouping whose summary always has a group, of all the detections.
FallbackNeverEmpty(dets, content, hash_order) ==
    [summary |-> <<[label |-> "Lights01", count |-> Len(dets),
                    description |-> "Unknown Fixture", symbols |-> <<>>]>>,
     detailed_detections |-> [i \in DOMAIN dets |-> DetailedDetection(dets[i])]]

\* _fallback_grouping
FallbackGrouping(dets, content, hash_order) ==
    [summary |-> BuildSummary(GroupDetections(dets, <<>>), hash_order),
     detailed_detections |-> [i \in DOMAIN dets |-> DetailedDetection(dets[i])]]

\* The strings _fallback_grouping puts into sets for the given detections.
HashedStrings(dets) ==
    {Get(dets[i], "symbol", "Unknown") : i \in DOMAIN dets}
        \cup ({Get(dets[i], "description", "") : i \in DOMAIN dets} \ {""})

\* The iteration orders the interpreter may give those strings.
HashOrders(dets) == Orders(HashedStrings(dets))

\* ------------------------------------------------------ _parse_llm_response
\* str.find(c): 0-based index of the first occurrence, -1 when there is none.
RECURSIVE FindFrom(_, _, _)
FindFrom(s, c, i) ==
    IF i > Len(s) THEN -1
    ELSE IF CharAt(s, i) = c THEN i - 1
    ELSE FindFrom(s, c, i + 1)

Find(s, c) == FindFrom(s, c, 1)

\* str.rfind(c): 0-based index of the last occurrence, -1 when there is none.
RECURSIVE RFindFrom(_, _, _)
RFindFrom(s, c, i) ==
    IF i < 1 THEN -1
    ELSE IF CharAt(s, i) = c THEN i - 1
    ELSE RFindFrom(s, c, i - 1)

RFind(s, c) == RFindFrom(s, c, Len(s))

\* s[start:end] for 0 <= start, 0 <= end.
Slice(s, start, end) == SubSeq(s, start + 1, end)

\* The member lists the modelled service puts between the outer braces of a
\* JSON object, as text.
MembersConsistent ==
    "\"summary\":{\"Lights01\":{\"count\":1,\"description\":\"Exit Sign\",\"symbols\":[\"A1\"]}},\"detailed_detections\":[{\"symbol\":\"A1\"}]"
MembersMiscounted ==
    "\"summary\":{\"Lights01\":{\"count\":2,\"description\":\"Exit Sign\",\"symbols\":[\"A1\"]}},\"detailed_detections\":[{\"symbol\":\"A1\"}]"

\* The pieces a reply of the modelled service is made of: braces, prose
\* without braces, and the member lists above.
ResponseFragments == {"{", "}", "Here is the result ", MembersConsistent, MembersMiscounted}

RECURSIVE Concat(_)
Concat(pieces) == IF pieces = <<>> THEN "" ELSE Head(pieces) \o Concat(Tail(pieces))

\* The replies of the modelled service.
Responses == {Concat(pieces) : pieces \in SeqsUpTo(ResponseFragments, MaxResponseLen)}

\* The summary both member lists describe, with the given count.
DecodedSummary(n) ==
    <<[label |-> "Lights01", count |-> n, description |-> "Exit Sign",
       symbols |-> <<"A1">>]>>

\* json.loads on a text made of the fragments above: whether the text is
\* valid JSON (ok) and the value decoded. Of those texts exactly an object
\* whose braces enclose nothing or one of the member lists is valid JSON.
JsonLoads(json_str) ==
    IF json_str = "{}" THEN [ok |-> TRUE, value |-> <<>>]
    ELSE IF json_str = "{" \o MembersConsistent \o "}"
    THEN [ok |-> TRUE,
          value |-> [summary |-> DecodedSummary(1),
                     detailed_detections |-> <<[symbol |-> "A1"]>>]]
    ELSE IF json_str = "{" \o MembersMiscounted \o "}"
    THEN [ok |-> TRUE,
          value |-> [summary |-> DecodedSummary(2),
                     detailed_detections |-> <<[symbol |-> "A1"]>>]]
    ELSE [ok |-> FALSE, value |-> <<>>]

\* What _parse_llm_response returns from its except branch.
EmptyClassification == [summary |-> <<>>, detailed_detections |-> <<>>]

ParseLlmResponse(text) ==
    LET start_idx == Find(text, "{")
        end_idx == RFind(text, "}") + 1
    IN  IF start_idx # -1 /\ end_idx # 0
        THEN LET decoded == JsonLoads(Slice(text, start_idx, end_idx))
             IN  IF decoded.ok THEN decoded.value ELSE EmptyClassification
        ELSE EmptyClassification

\* ------------------------------------ classify_and_group_emergency_lighting
\* A key that a detection dict may lack.
Absent == "<absent>"

\* A detection dict with the given values; a value of Absent leaves the key out.
DetectionOf(type, symbol, description) ==
    LET given == [type |-> type, symbol |-> symbol, description |-> description]
        present == {k \in DOMAIN given : given[k] # Absent}
    IN  [k \in present \cup {"confidence"} |->
            IF k = "confidence" THEN 96000 ELSE given[k]]

\* The detections classify_and_group_emergency_lighting is called with.
ServiceDetectionRecords ==
    {DetectionOf(t, "A1", d) :
        t \in {Absent, "emergency_exit"}, d \in {"", "Exit Sign"}}

\* The static content it is called with: a rulebook with no or one entry.
StaticContents ==
    {[rulebook |-> <<>>],
     [rulebook |-> <<[type |-> "note", text |-> "ALL EXIT SIGNS ON EMERGENCY CIRCUIT"]>>]}

\* The exceptions requests.post, raise_for_status and response.json() raise.
CallErrors == {"ConnectionError", "Timeout", "HTTPError", "ValueError"}

\* An except branch that gives up with an empty classification.
ExceptBranchEmpty(dets, content, hash_order) == EmptyClassification

\* Lines 48-50: the except branch of classify_and_group_emergency_lighting.
ExceptBranch(dets, content, hash_order) == FallbackGrouping(dets, content, hash_order)

\* Lines 33-34: no key, the fallback is returned and no request is made.
ClassifyWithoutKey ==
    /\ pc = "idle"
    /\ ~api_key
    /\ \E hash_order \in HashOrders(detections) :
           result' = FallbackGrouping(detections, static_content, hash_order)
    /\ outcome' = "returned"
    /\ pc' = "done"
    /\ UNCHANGED <<task_vars, detector_vars, association_vars, label_vars, job_vars,
                   api_key, detections, static_content, calls, response, call_error,
                   run1, run2>>

\* Lines 36-41 and 145-166: the prompt is built and posted; requests.post is
\* given no timeout and blocks until the service answers or the call fails.
ClassifyCallService ==
    /\ pc = "idle"
    /\ api_key
    /\ calls' = calls + 1
    /\ pc' = "calling"
    /\ UNCHANGED <<task_vars, detector_vars, association_vars, label_vars, job_vars,
                   api_key, detections, static_content, response, result, outcome,
                   call_error, run1, run2>>

\* Lines 166-170 and 44-46: the service answers 2xx with a chat completion,
\* whose content is parsed and returned.
ServiceResponds ==
    /\ pc = "calling"
    /\ \E text \in Responses :
           /\ response' = text
           /\ result' = ParseLlmResponse(text)
    /\ outcome' = "returned"
    /\ pc' = "done"
    /\ UNCHANGED <<task_vars, detector_vars, association_vars, label_vars, job_vars,
                   api_key, detections, static_content, calls, call_error, run1, run2>>

\* Lines 166-170 and 48-50: the call raises; the exception is caught and the
\* fallback is returned.
ServiceFails ==
    /\ pc = "calling"
    /\ \E kind \in CallErrors : call_error' = kind
    /\ \E hash_order \in HashOrders(detections) :
           result' = ExceptBranch(detections, static_content, hash_order)
    /\ outcome' = "returned"
    /\ pc' = "done"
    /\ UNCHANGED <<task_vars, detector_vars, association_vars, label_vars, job_vars,
                   api_key, detections, static_content, calls, response, run1, run2>>

Init ==
    /\ api_key \in BOOLEAN
    /\ detections \in SeqsUpTo(ServiceDetectionRecords, MaxDetections)
    /\ static_content \in StaticContents
    /\ pc = "idle"
    /\ calls = 0
    /\ response = ""
    /\ call_error = "none"
    /\ result = NoResult
    /\ outcome = "none"
    /\ run1 = NoResult
    /\ run2 = NoResult
    /\ pdf = NoResult
    /\ all_emergency_detections = NoResult
    /\ ocr_data = NoResult
    /\ DetectorIdle
    /\ AssociationIdle
    /\ LabelIdle
    /\ JobIdle

Next ==
    \/ ClassifyWithoutKey
    \/ ClassifyCallService
    \/ ServiceResponds
    \/ ServiceFails

Spec == Init /\ [][Next]_vars

\* The classifier posts its request whenever it can; nothing obliges the
\* external service to answer or the connection to fail. (While a request is
\* in flight no step of the classifier is enabled, so fairness of its other
\* step, ClassifyWithoutKey, cannot change what happens then.)
FairSpec == Spec /\ WF_vars(ClassifyCallService)

\* ------------------------------------------- direct runs of _fallback_grouping
\* The detections _fallback_grouping is run on directly.
FallbackDetectionRecords ==
    {DetectionOf(t, s, d) :
        t \in {Absent, "emergency_exit"}, s \in {Absent, "A1"},
        d \in {"", "Exit Sign", "Combo Unit"}}

\* A first run, in an interpreter with any hash seed.
FallbackFirstRun ==
    /\ pc = "idle"
    /\ \E hash_order \in HashOrders(detections) :
           run1' = FallbackGrouping(detections, static_content, hash_order)
    /\ pc' = "ran_once"
    /\ UNCHANGED <<task_vars, detector_vars, association_vars, label_vars, job_vars,
                   api_key, detections, static_content, calls, response, call_error,
                   result, outcome, run2>>

\* A second run on the same arguments, in an interpreter with any hash seed.
FallbackSecondRun ==
    /\ pc = "ran_once"
    /\ \E hash_order \in HashOrders(detections) :
           run2' = FallbackGrouping(detections, static_content, hash_order)
    /\ pc' = "ran_twice"
    /\ UNCHANGED <<task_vars, detector_vars, association_vars, label_vars, job_vars,
                   api_key, detections, static_content, calls, response, call_error,
                   result, outcome, run1>>

FallbackInit ==
    /\ api_key = FALSE
    /\ detections \in SeqsUpTo(FallbackDetectionRecords, MaxDetections)
    /\ static_content \in StaticContents
    /\ pc = "idle"
    /\ calls = 0
    /\ response = ""
    /\ call_error = "none"
    /\ result = NoResult
    /\ outcome = "none"
    /\ run1 = NoResult
    /\ run2 = NoResult
    /\ pdf = NoResult
    /\ all_emergency_detections = NoResult
    /\ ocr_data = NoResult
    /\ DetectorIdle
    /\ AssociationIdle
    /\ LabelIdle
    /\ JobIdle

FallbackNext == FallbackFirstRun \/ FallbackSecondRun

FallbackSpec == FallbackInit /\ [][FallbackNext]_vars

\* ------------------------------------------------- process_blueprint_task
\* Longest document, in pages.
MaxPages == 2

\* PDFProcessor.process_pdf_pages: the pages numbered from 1; an empty list
\* when the document cannot be opened.
ProcessPdfPages(document) ==
    IF ~document.opens THEN <<>>
    ELSE [i \in DOMAIN document.pages |-> [page_number |-> i, image |-> document.pages[i]]]

\* f"Page {page_num}"
PageName(page_num) == "Page " \o ToString(page_num)

\* _extract_static_content
ExtractStaticContent(page_ocr, page_num) ==
    LET general_notes == Get(page_ocr, "general_notes", <<>>)
        table_data == Get(page_ocr, "table_data", <<>>)
    IN  [i \in DOMAIN general_notes |->
            [type |-> "note", text |-> general_notes[i], source_sheet |-> PageName(page_num)]]
        \o [i \in DOMAIN table_data |->
               [type |-> "table_row",
                symbol |-> Get(table_data[i], "symbol", None),
                description |-> Get(table_data[i], "description", None),
                mount |-> Get(table_data[i], "mount", None),
                voltage |-> Get(table_data[i], "voltage", None),
                lumens |-> Get(table_data[i], "lumens", None),
                source_sheet |-> PageName(page_num)]]

\* _combine_ocr_data
RECURSIVE CombineOcrData(_)
CombineOcrData(ocr_data_list) ==
    IF ocr_data_list = <<>>
    THEN [all_text |-> <<>>, emergency_symbols |-> <<>>, table_data |-> <<>>,
          general_notes |-> <<>>]
    ELSE LET combined == CombineOcrData(SubSeq(ocr_data_list, 1, Len(ocr_data_list) - 1))
             page_ocr == ocr_data_list[Len(ocr_data_list)]
         IN  [all_text |-> combined.all_text \o Get(page_ocr, "all_text", <<>>),
              emergency_symbols |->
                  combined.emergency_symbols \o Get(page_ocr, "emergency_symbols", <<>>),
              table_data |-> combined.table_data \o Get(page_ocr, "table_data", <<>>),
              general_notes |-> combined.general_notes \o Get(page_ocr, "general_notes", <<>>)]

\* Lines 85-87: each associated fixture is given the page's name.
NamedFixtures(associated_fixtures, page_num) ==
    [i \in DOMAIN associated_fixtures |->
        Update(associated_fixtures[i], [source_sheet |-> PageName(page_num)])]

\* What a page adds, put in front of what the pages before it added.
PageListsInFront(lists, page_num, cv_detections, page_ocr) ==
    [all_emergency_detections |->
         NamedFixtures(
             AssociateTextWithFixtures(Get(cv_detections, "emergency_fixtures", <<>>),
                                       Get(page_ocr, "all_text", <<>>)),
             page_num)
         \o lists.all_emergency_detections,
     all_ocr_data |-> <<page_ocr>> \o lists.all_ocr_data,
     all_static_content |->
         ExtractStaticContent(page_ocr, page_num) \o lists.all_static_content]

\* Lines 78-94: what a page adds to the three lists, given what the detector
\* and the OCR processor return for its image.
PageLists(lists, page_num, cv_detections, page_ocr) ==
    [all_emergency_detections |->
         lists.all_emergency_detections
         \o NamedFixtures(
                AssociateTextWithFixtures(Get(cv_detections, "emergency_fixtures", <<>>),
                                          Get(page_ocr, "all_text", <<>>)),
                page_num),
     all_ocr_data |-> Append(lists.all_ocr_data, page_ocr),
     all_static_content |->
         lists.all_static_content \o ExtractStaticContent(page_ocr, page_num)]

\* Lines 63-94: the loop over the pages, which fills the three lists.
RECURSIVE ProcessPages(_)
ProcessPages(processed_pages) ==
    IF processed_pages = <<>>
    THEN [all_emergency_detections |-> <<>>, all_ocr_data |-> <<>>,
          all_static_content |-> <<>>]
    ELSE PageLists(ProcessPages(SubSeq(processed_pages, 1, Len(processed_pages) - 1)),
                   processed_pages[Len(processed_pages)].page_number,
                   DetectorProcessImage(processed_pages[Len(processed_pages)].image),
                   OcrProcessImage(processed_pages[Len(processed_pages)].image))

\* Lines 285-294 of _combine_detections: the record made of a fixture.
CombinedFixture(detection) ==
    [symbol |-> Get(detection, "symbol", "Unknown"),
     type |-> Get(detection, "type", "unknown"),
     description |-> Get(detection, "description", ""),
     bounding_box |-> Get(detection, "bounding_box", <<>>),
     text_nearby |-> Get(detection, "text_nearby", <<>>),
     source_sheet |-> Get(detection, "source_sheet", "Unknown"),
     confidence |-> Get(detection, "confidence", 0)]

\* Lines 297-307 of _combine_detections: the record made of an OCR symbol.
CombinedSymbol(symbol) ==
    [symbol |-> Get(symbol, "symbol", "Unknown"),
     type |-> "emergency_light",
     description |-> "Emergency Lighting Fixture",
     bounding_box |-> Get(symbol, "bounding_box", <<>>),
     text_nearby |-> <<Get(symbol, "text", "")>>,
     source_sheet |-> "OCR",
     confidence |-> Get(symbol, "confidence", 0)]

\* _combine_detections
CombineDetections(emergency_detections, combined_ocr) ==
    [i \in DOMAIN emergency_detections |-> CombinedFixture(emergency_detections[i])]
    \o (IF "emergency_symbols" \in DOMAIN combined_ocr
        THEN [i \in DOMAIN combined_ocr.emergency_symbols |->
                 CombinedSymbol(combined_ocr.emergency_symbols[i])]
        ELSE <<>>)

\* The regions the pages show, as cv2 reports a filled rectangle: its
\* contourArea is (w - 1) * (h - 1) for the boundingRect (x, y, w, h).
\* RegionC contains RegionA and is twice as wide (IoU 1/2); RegionD shares
\* 30 of the 100 columns it spans with RegionA (IoU 3/10); RegionB is far
\* from the others.
RegionA == [area |-> 6000, x |-> 100, y |-> 100, w |-> 61, h |-> 101]
RegionB == [area |-> 9000, x |-> 600, y |-> 100, w |-> 91, h |-> 101]
RegionC == [area |-> 12100, x |-> 100, y |-> 100, w |-> 122, h |-> 101]
RegionD == [area |-> 6800, x |-> 131, y |-> 100, w |-> 69, h |-> 101]

\* What the strategies find on a page: nothing; region A twice; regions A
\* and B once each; and region A before the next strategy raises.
PageContours ==
    {[contours |-> [adaptive_threshold |-> <<>>, otsu_threshold |-> <<>>,
                    edge_detection |-> <<>>],
      raises |-> "none"],
     [contours |-> [adaptive_threshold |-> <<RegionA>>, otsu_threshold |-> <<RegionA>>,
                    edge_detection |-> <<>>],
      raises |-> "none"],
     [contours |-> [adaptive_threshold |-> <<RegionA>>, otsu_threshold |-> <<>>,
                    edge_detection |-> <<RegionB>>],
      raises |-> "none"],
     [contours |-> [adaptive_threshold |-> <<RegionA>>, otsu_threshold |-> <<>>,
                    edge_detection |-> <<>>],
      raises |-> "otsu_threshold"]}

\* The words read on a page: one under each region; or a blank, a word of
\* low confidence and a heading far from both regions.
PageWords ==
    {<<[text |-> "EXIT", left |-> 120, top |-> 170, width |-> 40, height |-> 12,
        conf |-> 90],
       [text |-> "WALLPACK", left |-> 620, top |-> 210, width |-> 70, height |-> 12,
        conf |-> 85]>>,
     <<[text |-> "  ", left |-> 110, top |-> 110, width |-> 10, height |-> 12,
        conf |-> 95],
       [text |-> "A1E", left |-> 130, top |-> 120, width |-> 30, height |-> 12,
        conf |-> 20],
       [text |-> "GENERAL", left |-> 1200, top |-> 900, width |-> 80, height |-> 12,
        conf |-> 80]>>}

\* The images of the pages.
PageImages ==
    {[contours |-> c.contours, raises |-> c.raises, words |-> w] :
        c \in PageContours, w \in PageWords}

\* The documents: one that cannot be opened, and those of up to MaxPages
\* pages.
Documents ==
    {[opens |-> FALSE, pages |-> <<>>]}
        \cup {[opens |-> TRUE, pages |-> p] : p \in SeqsUpTo(PageImages, MaxPages)}

\* Lines 55-58: the document has no page; the task raises and fails.
TaskNoPages ==
    /\ pc = "task"
    /\ ProcessPdfPages(pdf) = <<>>
    /\ pc' = "failed"
    /\ outcome' = "raised"
    /\ UNCHANGED <<task_vars, detector_vars, association_vars, label_vars, job_vars,
                   api_key, detections, static_content, calls, response,
                   result, call_error, run1, run2>>

\* Lines 55-109 and 269-272: the pages are processed and the classifier is
\* entered with the combined detections and the static content.
TaskProcessPages ==
    /\ pc = "task"
    /\ ProcessPdfPages(pdf) # <<>>
    /\ \E lists \in {ProcessPages(ProcessPdfPages(pdf))} :
           /\ all_emergency_detections' = lists.all_emergency_detections
           /\ ocr_data' = CombineOcrData(lists.all_ocr_data)
           /\ detections' = CombineDetections(lists.all_emergency_detections,
                                              CombineOcrData(lists.all_ocr_data))
           /\ static_content' = [rulebook |-> lists.all_static_content]
    /\ pc' = "idle"
    /\ UNCHANGED <<detector_vars, association_vars, label_vars, job_vars, pdf, api_key, calls, response, result,
                   outcome, call_error, run1, run2>>

PipelineInit ==
    /\ pdf \in Documents
    /\ api_key \in BOOLEAN
    /\ pc = "task"
    /\ all_emergency_detections = <<>>
    /\ ocr_data = NoResult
    /\ detections = <<>>
    /\ static_content = NoResult
    /\ calls = 0
    /\ response = ""
    /\ call_error = "none"
    /\ result = NoResult
    /\ outcome = "none"
    /\ run1 = NoResult
    /\ run2 = NoResult
    /\ DetectorIdle
    /\ AssociationIdle
    /\ LabelIdle
    /\ JobIdle

PipelineNext ==
    \/ TaskNoPages
    \/ TaskProcessPages
    \/ ClassifyWithoutKey
    \/ ClassifyCallService
    \/ ServiceResponds
    \/ ServiceFails

PipelineSpec == PipelineInit /\ [][PipelineNext]_vars

\* The task up to the call of the classifier.
PagesNext ==
    \/ TaskNoPages
    \/ TaskProcessPages

PagesSpec == PipelineInit /\ [][PagesNext]_vars

\* ------------------------------ an upload and its process_blueprint_task
\* main.py lines 62-74: the file is not a PDF or is too large; HTTP 400.
UploadRejected ==
    /\ api_pc = "request"
    /\ api_pc' = "rejected"
    /\ UNCHANGED <<pc, task_vars, detector_vars, association_vars, label_vars,
                   classifier_vars, processing_result, temp_file, queue, result_record,
                   task_end>>

\* main.py lines 76-98: the file is written to temp_uploads and the row is
\* added with status "pending" and committed.
UploadStore ==
    /\ api_pc = "request"
    /\ temp_file' = TRUE
    /\ processing_result' = [status |-> "pending", result |-> NoResult, error_message |-> None]
    /\ api_pc' = "stored"
    /\ UNCHANGED <<pc, task_vars, detector_vars, association_vars, label_vars,
                   classifier_vars, queue, result_record, task_end>>

\* main.py lines 100-103: process_blueprint_task.delay puts the message in
\* the broker.
UploadEnqueue ==
    /\ api_pc = "stored"
    /\ queue' = TRUE
    /\ api_pc' = "enqueued"
    /\ UNCHANGED <<pc, task_vars, detector_vars, association_vars, label_vars,
                   classifier_vars, processing_result, temp_file, result_record, task_end>>

\* main.py lines 104-114: delay raises; the row is set to "failed" and
\* committed, and the request ends with HTTP 500.
UploadEnqueueFails ==
    /\ api_pc = "stored"
    /\ processing_result' =
           [processing_result EXCEPT !.status = "failed",
                                     !.error_message = "Failed to start background processing"]
    /\ api_pc' = "error"
    /\ UNCHANGED <<pc, task_vars, detector_vars, association_vars, label_vars,
                   classifier_vars, temp_file, queue, result_record, task_end>>

\* main.py lines 115-119: the response with status "uploaded".
UploadRespond ==
    /\ api_pc = "enqueued"
    /\ api_pc' = "uploaded"
    /\ UNCHANGED <<pc, task_vars, detector_vars, association_vars, label_vars,
                   classifier_vars, processing_result, temp_file, queue, result_record,
                   task_end>>

\* tasks.py lines 30-44: the worker takes the message; the progress is
\* updated, the row is looked up by its name, set to "processing" when
\* found, and committed.
TaskStart ==
    /\ pc = "worker"
    /\ queue = TRUE
    /\ queue' = FALSE
    /\ IF processing_result = NoResult
       THEN result_record' = "none" /\ UNCHANGED processing_result
       ELSE /\ result_record' = "bound"
            /\ processing_result' = [processing_result EXCEPT !.status = "processing"]
    /\ pc' = "task"
    /\ UNCHANGED <<task_vars, detector_vars, association_vars, label_vars, classifier_vars,
                   temp_file, api_pc, task_end>>

\* tasks.py line 34: update_state raises before result_record is assigned.
TaskStartFails ==
    /\ pc = "worker"
    /\ queue = TRUE
    /\ queue' = FALSE
    /\ pc' = "failed"
    /\ outcome' = "raised"
    /\ UNCHANGED <<task_vars, detector_vars, association_vars, label_vars,
                   api_key, detections, static_content, calls, response, result,
                   call_error, run1, run2,
                   processing_result, temp_file, api_pc, result_record, task_end>>

\* tasks.py lines 46-112: update_state, or another call of these lines,
\* raises.
TaskStepFails ==
    /\ pc \in {"task", "idle", "done"}
    /\ pc' = "failed"
    /\ outcome' = "raised"
    /\ UNCHANGED <<task_vars, detector_vars, association_vars, label_vars, job_vars,
                   api_key, detections, static_content, calls, response, result,
                   call_error, run1, run2>>

\* tasks.py lines 114-145: the rows of the detections and of the static
\* content are added, the row is set to "complete" with the classification
\* result, and all is committed.
TaskSave ==
    /\ pc = "done"
    /\ processing_result' =
           IF result_record = "bound"
           THEN [processing_result EXCEPT !.status = "complete", !.result = result]
           ELSE processing_result
    /\ pc' = "saved"
    /\ UNCHANGED <<task_vars, detector_vars, association_vars, label_vars, classifier_vars,
                   temp_file, queue, api_pc, result_record, task_end>>

\* tasks.py lines 148-159: the progress is updated, the file is removed and
\* the task returns.
TaskCleanup ==
    /\ pc = "saved"
    /\ temp_file' = FALSE
    /\ task_end' = "returned"
    /\ pc' = "cleaned"
    /\ UNCHANGED <<task_vars, detector_vars, association_vars, label_vars, classifier_vars,
                   processing_result, queue, api_pc, result_record>>

\* tasks.py lines 148-152: update_state or os.remove raises; the file stays.
TaskCleanupFails ==
    /\ pc = "saved"
    /\ pc' = "failed"
    /\ outcome' = "raised"
    /\ UNCHANGED <<task_vars, detector_vars, association_vars, label_vars, job_vars,
                   api_key, detections, static_content, calls, response, result,
                   call_error, run1, run2>>

\* tasks.py lines 161-175, the except block: "if result_record" raises
\* UnboundLocalError when the name was never assigned; else the row, when
\* there is one, is set to "failed" with the message and committed, the
\* file is removed unless os.remove raises, and the task raises.
TaskHandleError ==
    /\ pc = "failed"
    /\ task_end = "none"
    /\ IF result_record = "unbound"
       THEN UNCHANGED <<processing_result, temp_file>>
       ELSE /\ processing_result' =
                   IF result_record = "bound"
                   THEN [processing_result EXCEPT !.status = "failed",
                                                  !.error_message = "the exception's message"]
                   ELSE processing_result
            /\ \E removed \in BOOLEAN : temp_file' = (temp_file /\ ~removed)
    /\ task_end' = "raised"
    /\ UNCHANGED <<pc, task_vars, detector_vars, association_vars, label_vars,
                   classifier_vars, queue, api_pc, result_record>>

JobInit ==
    /\ pdf \in Documents
    /\ api_key = FALSE
    /\ pc = "worker"
    /\ all_emergency_detections = <<>>
    /\ ocr_data = NoResult
    /\ detections = <<>>
    /\ static_content = NoResult
    /\ calls = 0
    /\ response = ""
    /\ call_error = "none"
    /\ result = NoResult
    /\ outcome = "none"
    /\ run1 = NoResult
    /\ run2 = NoResult
    /\ processing_result = NoResult
    /\ temp_file = FALSE
    /\ queue = FALSE
    /\ api_pc = "request"
    /\ result_record = "unbound"
    /\ task_end = "none"
    /\ DetectorIdle
    /\ AssociationIdle
    /\ LabelIdle

\* The steps of upload_blueprint.
UploadNext ==
    \/ UploadRejected
    \/ UploadStore
    \/ UploadEnqueue
    \/ UploadEnqueueFails
    \/ UploadRespond

\* The steps of the worker that runs process_blueprint_task.
WorkerNext ==
    \/ TaskStart
    \/ TaskStartFails
    \/ TaskNoPages
    \/ TaskProcessPages
    \/ ClassifyWithoutKey
    \/ TaskStepFails
    \/ TaskSave
    \/ TaskCleanup
    \/ TaskCleanupFails
    \/ TaskHandleError

JobNext ==
    \/ UploadNext
    \/ WorkerNext

JobSpec == JobInit /\ [][JobNext]_vars

\* A step of the worker is possible: a message waits, or the task is
\* between its first line and its end.
WorkerCanStep ==
    \/ pc = "worker" /\ queue = TRUE
    \/ pc \in {"task", "idle", "done", "saved"}
    \/ pc = "failed" /\ task_end = "none"

\* A step of the worker, by what it does to the task's position and end:
\* every step of WorkerNext changes one of the two, and no other step does.
WorkerSteps ==
    /\ WorkerCanStep
    /\ pc' \in {"worker", "task", "idle", "done", "saved", "cleaned", "failed"}
    /\ task_end' \in {"none", "returned", "raised"}

\* The request handler runs to its response, and the worker takes the
\* message and runs the task to its end: neither stops while it has a step.
FairJobSpec ==
    JobSpec /\ WF_vars(UploadNext) /\ WF_<<pc, task_end>>(WorkerSteps)

\* ------------------------------------------- the merge step called directly
MaxCandidates == 3

\* The regions a page can show.
Regions == {RegionA, RegionB, RegionC, RegionD}

\* The candidates the strategies produce from the regions.
CandidateUniverse ==
    {CandidateOf(Strategies[s], region) : s \in DOMAIN Strategies, region \in Regions}

\* _merge_overlapping_detections(all_detections): the list is sorted in
\* place and the merged list is returned.
Merge ==
    /\ pc = "merge"
    /\ all_detections' = SortByConfidence(all_detections)
    /\ merged_detections' = MergeOverlappingDetections(all_detections)
    /\ pc' = "merged"
    /\ UNCHANGED <<task_vars, association_vars, label_vars, job_vars, classifier_vars, input_image,
                   remerged_detections, box_a, box_b, iou_ab, iou_ba>>

\* _merge_overlapping_detections on the list it returned.
Remerge ==
    /\ pc = "merged"
    /\ merged_detections' = SortByConfidence(merged_detections)
    /\ remerged_detections' = MergeOverlappingDetections(merged_detections)
    /\ pc' = "remerged"
    /\ UNCHANGED <<task_vars, association_vars, label_vars, job_vars, classifier_vars, input_image,
                   all_detections, box_a, box_b, iou_ab, iou_ba>>

\* The classifier and the task have not run.
ClassifierIdle ==
    /\ api_key = FALSE
    /\ detections = <<>>
    /\ static_content = NoResult
    /\ calls = 0
    /\ response = ""
    /\ call_error = "none"
    /\ result = NoResult
    /\ outcome = "none"
    /\ run1 = NoResult
    /\ run2 = NoResult
    /\ pdf = NoResult
    /\ all_emergency_detections = NoResult
    /\ ocr_data = NoResult

MergeInit ==
    /\ pc = "merge"
    /\ all_detections \in SeqsUpTo(CandidateUniverse, MaxCandidates)
    /\ input_image = NoResult
    /\ merged_detections = NoResult
    /\ remerged_detections = NoResult
    /\ box_a = NoResult
    /\ box_b = NoResult
    /\ iou_ab = NoResult
    /\ iou_ba = NoResult
    /\ ClassifierIdle
    /\ AssociationIdle
    /\ LabelIdle
    /\ JobIdle

MergeNext ==
    \/ Merge
    \/ Remerge

MergeSpec == MergeInit /\ [][MergeNext]_vars

\* ------------------------- detect_shaded_rectangular_areas called directly
MaxContours == 1

\* The images: what each strategy finds, and the strategy that raises, if
\* one does.
DetectorImages ==
    {[contours |-> [adaptive_threshold |-> a, otsu_threshold |-> o, edge_detection |-> d],
      raises |-> r] :
        a \in SeqsUpTo(Regions, MaxContours),
        o \in SeqsUpTo(Regions, MaxContours),
        d \in SeqsUpTo(Regions, MaxContours),
        r \in {"none"} \cup {Strategies[s].method : s \in DOMAIN Strategies}}

\* detect_shaded_rectangular_areas(input_image) returns to its caller.
Detect ==
    /\ pc = "detect"
    /\ merged_detections' = DetectShadedRectangularAreas(input_image)
    /\ outcome' = "returned"
    /\ pc' = "detected"
    /\ UNCHANGED <<task_vars, association_vars, label_vars, job_vars, api_key, detections, static_content,
                   calls, response, result, call_error, run1, run2, input_image,
                   all_detections, remerged_detections, box_a, box_b, iou_ab, iou_ba>>

DetectInit ==
    /\ pc = "detect"
    /\ input_image \in DetectorImages
    /\ all_detections = NoResult
    /\ merged_detections = NoResult
    /\ remerged_detections = NoResult
    /\ box_a = NoResult
    /\ box_b = NoResult
    /\ iou_ab = NoResult
    /\ iou_ba = NoResult
    /\ ClassifierIdle
    /\ AssociationIdle
    /\ LabelIdle
    /\ JobIdle

DetectSpec == DetectInit /\ [][Detect]_vars

\* ---------------------------- associate_text_with_fixtures called directly
MaxFixtures == 2
MaxTextBlocks == 2

\* The fixtures handed over: two with a box of four, whose centres are
\* (100, 100) and (100.5, 100); one without a box; and one with a box of
\* three.
FixtureUniverse ==
    {[bounding_box |-> <<50, 50, 150, 150>>, confidence |-> 0, type |-> "unknown",
      method |-> "adaptive_threshold"],
     [bounding_box |-> <<50, 50, 151, 150>>, confidence |-> 0, type |-> "unknown",
      method |-> "otsu_threshold"],
     [confidence |-> 0, type |-> "unknown", method |-> "edge_detection"],
     [bounding_box |-> <<50, 50, 150>>, confidence |-> 0, type |-> "unknown",
      method |-> "edge_detection"]}

\* The text blocks handed over: with centres (250.5, 100), which is 150
\* from the second fixture's centre, and (300, 100); a blank one at the
\* fixtures' centre; one without a box; and one with a box of two.
TextBlockUniverse ==
    {[text |-> " A1 ", bounding_box |-> <<230, 94, 271, 106>>, confidence |-> 108000],
     [text |-> "EM", bounding_box |-> <<280, 94, 320, 106>>, confidence |-> 102000],
     [text |-> "  ", bounding_box |-> <<90, 90, 110, 110>>, confidence |-> 114000],
     [text |-> "B2", confidence |-> 96000],
     [text |-> "C3", bounding_box |-> <<100, 100>>, confidence |-> 96000]}

\* associate_text_with_fixtures(cv_fixtures, ocr_text) returns to its caller.
Associate ==
    /\ pc = "associate"
    /\ association' = AssociateTextWithFixtures(cv_fixtures, ocr_text)
    /\ outcome' = "returned"
    /\ pc' = "associated"
    /\ UNCHANGED <<task_vars, detector_vars, api_key, detections, static_content,
                   calls, response, result, call_error, run1, run2, cv_fixtures, ocr_text,
                   label_vars, job_vars>>

AssociateInit ==
    /\ pc = "associate"
    /\ cv_fixtures \in SeqsUpTo(FixtureUniverse, MaxFixtures)
    /\ ocr_text \in SeqsUpTo(TextBlockUniverse, MaxTextBlocks)
    /\ association = NoResult
    /\ ClassifierIdle
    /\ DetectorIdle
    /\ LabelIdle
    /\ JobIdle

AssociateSpec == AssociateInit /\ [][Associate]_vars

\* ------------------------- one pass of the task's loop after the detector
\* tasks.py lines 84-87: the loop assigns source_sheet to each dict of the
\* list the associator returned, so the records of that list change, and
\* appends the same dicts to all_emergency_detections, empty before the
\* first page.
AddPageInformation ==
    /\ pc = "associated"
    /\ \E page_num \in 1..MaxPages :
           /\ association' = NamedFixtures(association, page_num)
           /\ all_emergency_detections' = NamedFixtures(association, page_num)
    /\ pc' = "named"
    /\ UNCHANGED <<pdf, ocr_data, detector_vars, label_vars, job_vars, classifier_vars,
                   cv_fixtures, ocr_text>>

PageLoopNext ==
    \/ Associate
    \/ AddPageInformation

PageLoopSpec == AssociateInit /\ [][PageLoopNext]_vars

\* ------------------- the loop body of associate_text_with_fixtures, lines 47-60
MaxNearby == 2

\* The texts _find_nearby_text can return: stripped and not blank.
NearbyTexts ==
    {"EXIT", "Exit", "EMERGENCY", "WALLPACK", "A1E", "EL2", "NOTE", "LED LUMINAIRE"}

\* Lines 47-60 for a fixture with a box of four and its nearby text.
Label ==
    /\ pc = "label"
    /\ \E fixture \in {f \in FixtureUniverse : Len(Get(f, "bounding_box", <<>>)) = 4} :
           labelled' = FixtureWithText(fixture, nearby)
    /\ pc' = "labelled"
    /\ UNCHANGED <<task_vars, detector_vars, association_vars, classifier_vars, nearby,
                   job_vars>>

LabelInit ==
    /\ pc = "label"
    /\ nearby \in SeqsUpTo(NearbyTexts, MaxNearby)
    /\ labelled = NoResult
    /\ ClassifierIdle
    /\ DetectorIdle
    /\ AssociationIdle
    /\ JobIdle

LabelSpec == LabelInit /\ [][Label]_vars

\* ------------------ the associator and the classifier, each called directly
StagesInit ==
    \/ AssociateInit
    \/ Init

StagesNext ==
    \/ Associate
    \/ Next

StagesSpec == StagesInit /\ [][StagesNext]_vars

\* --------------------------------------------- _calculate_iou called directly
MaxCoordinate == 3

\* The boxes [x1, y1, x2, y2] on the grid, the empty and inverted ones
\* included.
Boxes == [1..4 -> 0..MaxCoordinate]

\* _calculate_iou(box_a, box_b) and _calculate_iou(box_b, box_a)
ComputeIou ==
    /\ pc = "iou"
    /\ iou_ab' = CalculateIou(box_a, box_b)
    /\ iou_ba' = CalculateIou(box_b, box_a)
    /\ pc' = "iou_done"
    /\ UNCHANGED <<task_vars, association_vars, label_vars, job_vars, classifier_vars, input_image,
                   all_detections, merged_detections, remerged_detections, box_a, box_b>>

IouInit ==
    /\ pc = "iou"
    /\ box_a \in Boxes
    /\ box_b \in Boxes
    /\ iou_ab = NoResult
    /\ iou_ba = NoResult
    /\ input_image = NoResult
    /\ all_detections = NoResult
    /\ merged_detections = NoResult
    /\ remerged_detections = NoResult
    /\ ClassifierIdle
    /\ AssociationIdle
    /\ LabelIdle
    /\ JobIdle

IouSpec == IouInit /\ [][ComputeIou]_vars

\* ================================================================= claims
\* The results _fallback_grouping can return for the given arguments.
FallbackResults(dets, content) ==
    {FallbackGrouping(dets, content, hash_order) : hash_order \in HashOrders(dets)}

RECURSIVE SumCounts(_)
SumCounts(summary) ==
    IF summary = <<>> THEN 0 ELSE Head(summary).count + SumCounts(Tail(summary))

\* The reply holds no JSON object: it has no brace pair, or the text from its
\* first opening brace to its last closing brace is not valid JSON.
Unparseable(text) ==
    \/ Find(text, "{") = -1
    \/ RFind(text, "}") = -1
    \/ ~JsonLoads(Slice(text, Find(text, "{"), RFind(text, "}") + 1)).ok

HasShape(value) == {"summary", "detailed_detections"} \subseteq DOMAIN value

\* The call went to the service and the service answered.
Answered == pc = "done" /\ api_key /\ call_error = "none"

\* C1: in every result of classify_and_group_emergency_lighting, whichever
\* path produced it, the counts of the summary groups add up to the number
\* of detailed detections.
C1_CountsMatchDetections ==
    pc = "done" =>
        SumCounts(Get(result, "summary", <<>>))
            = Len(Get(result, "detailed_detections", <<>>))

\* C2: with a key configured, a reply that cannot be parsed as a JSON object
\* makes classify_and_group_emergency_lighting return what _fallback_grouping
\* returns for the same detections and static content.
C2_UnparseableReplyFallsBack ==
    (Answered /\ Unparseable(response)) =>
        result \in FallbackResults(detections, static_content)

\* C3: without a key, or when the single request raises, nothing is raised
\* to the caller and the result is the fallback result for the same input;
\* the service is called at most once, and not at all without a key.
C3_FailureReturnsFallback ==
    /\ calls <= 1
    /\ ~api_key => calls = 0
    /\ outcome # "raised"
    /\ (pc = "done" /\ (~api_key \/ call_error # "none")) =>
           /\ outcome = "returned"
           /\ result \in FallbackResults(detections, static_content)

\* C3 witness: a request that timed out on a non-empty detection list, after
\* which the call has returned.
C3_Witness ==
    /\ pc = "done"
    /\ call_error = "Timeout"
    /\ calls = 1
    /\ detections # <<>>
    /\ result.summary # <<>>

\* C4: a request that is in flight is eventually over, so that
\* classify_and_group_emergency_lighting returns even when the service
\* never answers.
C4_CallEventuallyReturns == (pc = "calling") ~> (pc = "done")

\* C5: every result has the keys summary and detailed_detections, and a
\* reply that is valid JSON without that shape is replaced by the fallback
\* result.
C5_ResultHasShape ==
    pc = "done" =>
        /\ HasShape(result)
        /\ (Answered /\ ~Unparseable(response) /\ ~HasShape(ParseLlmResponse(response))) =>
               result \in FallbackResults(detections, static_content)

\* The classification came from _fallback_grouping: no key was configured,
\* or the request raised.
OnFallbackPath == pc = "done" /\ (~api_key \/ call_error # "none")

\* The positions of the pipeline's fixtures; they are the first of the
\* detections handed to the classifier, in the same order.
Fixtures == DOMAIN all_emergency_detections

\* The summary group the fallback counts the i-th detection in.
GroupOfDetection(i) ==
    CHOOSE k \in DOMAIN GroupDetections(detections, <<>>) :
        GroupDetections(detections, <<>>)[k].fixture_type
            = Get(detections[i], "type", "unknown")

\* C6: on the fallback path the fixtures of the pipeline are grouped by the
\* fixture_type that text association inferred: they fall into as many
\* summary groups as they have distinct fixture_types, and two fixtures of
\* different fixture_type are never counted in the same group.
C6_GroupedByFixtureType ==
    OnFallbackPath =>
        /\ Cardinality({GroupOfDetection(i) : i \in Fixtures})
               = Cardinality({all_emergency_detections[i].fixture_type : i \in Fixtures})
        /\ \A i, j \in Fixtures :
               all_emergency_detections[i].fixture_type
                       # all_emergency_detections[j].fixture_type
                   => GroupOfDetection(i) # GroupOfDetection(j)

\* The candidate regions of the pages with the confidence the strategies
\* gave them, in the order the task collects the fixtures; every candidate
\* has a box, so the i-th fixture comes from the i-th candidate.
RECURSIVE Candidates(_)
Candidates(processed_pages) ==
    IF processed_pages = <<>> THEN <<>>
    ELSE DetectShadedRectangularAreas(Head(processed_pages).image)
         \o Candidates(Tail(processed_pages))

\* C7: confidences are carried through the pipeline unmodified: for every
\* fixture, the confidence in the record handed to the classifier and in its
\* detailed_detections record on the fallback path is the confidence the
\* detection strategy gave the candidate region.
C7_ConfidenceCarriedThrough ==
    OnFallbackPath =>
        \A i \in Fixtures :
            /\ detections[i].confidence = Candidates(ProcessPdfPages(pdf))[i].confidence
            /\ result.detailed_detections[i].confidence
                   = Candidates(ProcessPdfPages(pdf))[i].confidence

\* The type the classifier reads from a detection.
TypeOf(detection) == IF "type" \in DOMAIN detection THEN detection["type"] ELSE "unknown"

\* Positions of the detections that are the first of their type.
FirstOfType(dets) ==
    {i \in DOMAIN dets : \A j \in 1..(i - 1) : TypeOf(dets[j]) # TypeOf(dets[i])}

\* Position of the first detection of the k-th distinct type.
KthFirst(dets, k) ==
    CHOOSE i \in FirstOfType(dets) : Cardinality({j \in FirstOfType(dets) : j <= i}) = k

\* Positions of the detections of the k-th distinct type.
OfKthType(dets, k) ==
    {i \in DOMAIN dets : TypeOf(dets[i]) = TypeOf(dets[KthFirst(dets, k)])}

ExpectedLabels ==
    <<"Lights01", "Lights02", "Lights03", "Lights04", "Lights05", "Lights06">>

DescriptionOf(detection) ==
    IF "description" \in DOMAIN detection THEN detection["description"] ELSE ""

\* Positions of the detections of the k-th type that carry a description.
Described(dets, k) == {i \in OfKthType(dets, k) : DescriptionOf(dets[i]) # ""}

ExpectedDefault(type) ==
    IF type = "emergency_exit" THEN "Emergency Exit Fixture"
    ELSE IF type = "unknown" THEN "Unknown Fixture"
    ELSE "?"

\* C9: each fallback group is described by the first non-empty description
\* in input order among the detections of its type, and by the title-cased
\* type name followed by " Fixture" when there is none.
C9_DescriptionIsFirstSeen ==
    pc # "idle" =>
        \A k \in DOMAIN run1.summary :
            LET described == Described(detections, k)
                first == CHOOSE i \in described : \A j \in described : i <= j
            IN  run1.summary[k].description =
                    IF described # {} THEN DescriptionOf(detections[first])
                    ELSE ExpectedDefault(TypeOf(detections[KthFirst(detections, k)]))

\* C10: two runs of _fallback_grouping on the same detections and static
\* content return identical results.
C10_RunsIdentical == pc = "ran_twice" => run1 = run2

\* C11: on the fallback path the detailed_detections of the classification
\* the task receives is the list of associated fixtures it handed over,
\* reshaped: one record per fixture, in the same order, and no other record.
C11_DetailedAreTheFixtures ==
    OnFallbackPath =>
        result.detailed_detections
            = [i \in Fixtures |-> DetailedDetection(all_emergency_detections[i])]

\* The summary groups of a result whose symbols hold the symbol.
GroupsWithSymbol(classification, symbol) ==
    {k \in DOMAIN classification.summary :
        \E n \in DOMAIN classification.summary[k].symbols :
            classification.summary[k].symbols[n] = symbol}

\* The position of the summary group of a type: that of the type among the
\* distinct types in the order of their first detections.
GroupOfType(dets, type) ==
    CHOOSE k \in 1..Cardinality(FirstOfType(dets)) : TypeOf(dets[KthFirst(dets, k)]) = type

\* C12: in a fallback result, the symbol of every detailed detection is in
\* the symbols of exactly one summary group, the group of the detection's
\* type.
C12_SymbolInOneGroup ==
    pc # "idle" =>
        \A i \in DOMAIN run1.detailed_detections :
            GroupsWithSymbol(run1, run1.detailed_detections[i].symbol)
                = {GroupOfType(detections, run1.detailed_detections[i].type)}

\* iou > 0.3 and iou >= 0.3 of two boxes, by the definition of IoU: the area
\* of the intersection over the area of the union.
Width(lo1, hi1, lo2, hi2) == Max(0, Min(hi1, hi2) - Max(lo1, lo2))

Intersection(b1, b2) ==
    Width(b1[1], b1[3], b2[1], b2[3]) * Width(b1[2], b1[4], b2[2], b2[4])

BoxArea(b) == (b[3] - b[1]) * (b[4] - b[2])

Union(b1, b2) == BoxArea(b1) + BoxArea(b2) - Intersection(b1, b2)

IouAbove(b1, b2) == 10 * Intersection(b1, b2) > 3 * Union(b1, b2)

IouAtLeast(b1, b2) == 10 * Intersection(b1, b2) >= 3 * Union(b1, b2)

Merged == pc \in {"merged", "remerged"}

\* C13: merging the list the merge step returned gives the same candidates
\* in the same order.
C13_MergeIdempotent ==
    pc = "remerged" => remerged_detections = merged_detections

\* The merge dropped a candidate and kept more than one, and was run again.
C13_Witness ==
    /\ pc = "remerged"
    /\ Len(merged_detections) >= 2
    /\ Len(merged_detections) < Len(all_detections)

ScenarioB ==
    /\ Len(all_detections) = 2
    /\ {all_detections[1].confidence, all_detections[2].confidence} = {72000, 96000}
    /\ 2 * Intersection(all_detections[1].bounding_box, all_detections[2].bounding_box)
           = Union(all_detections[1].bounding_box, all_detections[2].bounding_box)

\* C15: every merged candidate is one of the pool; every candidate of the
\* pool is kept or overlaps a kept candidate of at least its confidence, so
\* the one kept from a group is its most confident; and two candidates of
\* IoU 0.5 and confidences 0.6 and 0.8 leave exactly the one of 0.8.
C15_KeepsMostConfident ==
    Merged =>
        /\ \A k \in DOMAIN merged_detections :
               \E i \in DOMAIN all_detections : all_detections[i] = merged_detections[k]
        /\ \A i \in DOMAIN all_detections :
               \E k \in DOMAIN merged_detections :
                   /\ merged_detections[k].confidence >= all_detections[i].confidence
                   /\ \/ merged_detections[k] = all_detections[i]
                      \/ IouAbove(merged_detections[k].bounding_box,
                                  all_detections[i].bounding_box)
        /\ ScenarioB =>
               /\ Len(merged_detections) = 1
               /\ merged_detections[1].confidence = 96000

\* The scenario's pool has been merged.
C15_Witness == pc = "merged" /\ ScenarioB /\ Len(merged_detections) = 1

\* A box of positive width and height.
Proper(b) == b[1] < b[3] /\ b[2] < b[4]

\* Two boxes that share no interior point: one ends where the other starts,
\* or before.
Apart(b1, b2) == b1[3] <= b2[1] \/ b2[3] <= b1[1] \/ b1[4] <= b2[2] \/ b2[4] <= b1[2]

\* C16: the IoU of two boxes is the same in either order; the IoU of a box
\* of positive width and height with itself is 1; the IoU of two such boxes
\* that do not overlap, or only touch along an edge, is 0; and the IoU is
\* always between 0 and 1.
C16_IouProperties ==
    pc = "iou_done" =>
        /\ iou_ab.num * iou_ba.den = iou_ba.num * iou_ab.den
        /\ (Proper(box_a) /\ box_a = box_b) => iou_ab.num = iou_ab.den
        /\ (Proper(box_a) /\ Proper(box_b) /\ Apart(box_a, box_b)) => iou_ab.num = 0
        /\ iou_ab.den > 0
        /\ 0 <= iou_ab.num
        /\ iou_ab.num <= iou_ab.den

\* The IoU of two different boxes that overlap in part has been computed.
C16_Witness ==
    /\ pc = "iou_done"
    /\ Proper(box_a)
    /\ Proper(box_b)
    /\ 0 < iou_ab.num
    /\ iou_ab.num < iou_ab.den

\* The candidates the strategy s keeps on the image.
Contribution(image, s) == DetectBy(Strategies[s], image.contours[Strategies[s].method])

Raised == pc = "detected" /\ input_image.raises # "none"

\* C17: when a strategy raises, detect_shaded_rectangular_areas returns the
\* empty list to its caller and raises nothing.
C17_FailureReturnsEmpty ==
    Raised => merged_detections = <<>> /\ outcome = "returned"

\* The last strategy raised after the first had found a candidate.
C17_Witness ==
    /\ Raised
    /\ input_image.raises = "edge_detection"
    /\ Contribution(input_image, 1) # <<>>

\* The pool of the strategies other than the one that raised.
PoolOfOthers(image) ==
    LET others(s) == IF image.raises = Strategies[s].method THEN <<>>
                     ELSE Contribution(image, s)
    IN  others(1) \o others(2) \o others(3)

\* C18, as stated: when one strategy raises, the result is the merged
\* candidates of the other strategies.
C18_OthersStillAppear ==
    Raised => merged_detections = MergeOverlappingDetections(PoolOfOthers(input_image))

\* C18, amended: when one strategy raises, no candidate of any strategy is
\* in the result, neither of those that ran before it nor of those after.
C18_FailureDiscardsAll ==
    Raised =>
        \A s \in DOMAIN Strategies :
            \A c \in DOMAIN Contribution(input_image, s) :
                \A k \in DOMAIN merged_detections :
                    merged_detections[k] # Contribution(input_image, s)[c]

\* The second strategy raised; the first had found a candidate and the
\* third would have found one.
C18_Witness ==
    /\ Raised
    /\ input_image.raises = "otsu_threshold"
    /\ Contribution(input_image, 1) # <<>>
    /\ Contribution(input_image, 3) # <<>>

\* A candidate or a text block that has a box of four.
HasBox(d) == "bounding_box" \in DOMAIN d /\ Len(d.bounding_box) = 4

\* The candidates with a box of four, in input order.
WellFormed(fixture_list) == SelectSeq(fixture_list, HasBox)

\* The distance between the centres of two boxes is at most 150: the
\* centres doubled are the sums of the opposite corners.
CentresWithinThreshold(b1, b2) ==
    LET dx == (b1[1] + b1[3]) - (b2[1] + b2[3])
        dy == (b1[2] + b1[4]) - (b2[2] + b2[4])
    IN  dx * dx + dy * dy <= 4 * 150 * 150

\* The same for the centres rounded down to whole pixels.
FlooredCentresWithinThreshold(b1, b2) ==
    LET dx == ((b1[1] + b1[3]) \div 2) - ((b2[1] + b2[3]) \div 2)
        dy == ((b1[2] + b1[4]) \div 2) - ((b2[2] + b2[4]) \div 2)
    IN  dx * dx + dy * dy <= 150 * 150

\* The trimmed texts of the blocks that have a box of four and a text that
\* is not blank and are within the threshold, in the order of the blocks.
TextsWithin(bbox, blocks, Within(_, _)) ==
    LET upto[k \in 0..Len(blocks)] ==
            IF k = 0 THEN <<>>
            ELSE IF /\ HasBox(blocks[k])
                    /\ Strip(blocks[k].text) # ""
                    /\ Within(bbox, blocks[k].bounding_box)
                 THEN Append(upto[k - 1], Strip(blocks[k].text))
                 ELSE upto[k - 1]
    IN  upto[Len(blocks)]

Associated == pc = "associated"

\* C19, as stated: text_nearby of a candidate holds the text of a block
\* exactly when the distance between the centres of the two boxes is at
\* most the threshold.
C19_NearbyIffCentresWithin ==
    Associated =>
        \A k \in DOMAIN association :
            association[k].text_nearby
                = TextsWithin(association[k].bounding_box, ocr_text, CentresWithinThreshold)

\* C19, amended: text_nearby of a candidate holds the text of a block
\* exactly when the distance between the centres of the two boxes, each
\* coordinate rounded down to a whole pixel, is at most the threshold; with
\* centres (100, 100) and (300, 100) the text is not associated.
C19_NearbyIffFlooredCentresWithin ==
    Associated =>
        \A k \in DOMAIN association :
            /\ association[k].text_nearby
                   = TextsWithin(association[k].bounding_box, ocr_text,
                                 FlooredCentresWithinThreshold)
            /\ association[k].bounding_box = <<50, 50, 150, 150>> =>
                   \A n \in DOMAIN association[k].text_nearby :
                       association[k].text_nearby[n] # "EM"

\* A candidate of centre (100, 100) was associated with the text whose
\* centre, rounded down, is at distance 150 and not with the text at
\* distance 200, both on the page.
C19_Witness ==
    /\ Associated
    /\ \E n \in DOMAIN ocr_text : ocr_text[n].text = "EM"
    /\ \E k \in DOMAIN association :
           /\ association[k].bounding_box = <<50, 50, 150, 150>>
           /\ association[k].text_nearby = <<"A1">>

\* C20: the call returns; the result has one fixture for each candidate
\* with a box of four, in input order, each with the candidate's own
\* fields; and no text of a block without a box of four is in a text_nearby.
C20_MalformedGeometryDropped ==
    Associated =>
        /\ outcome = "returned"
        /\ Len(association) = Len(WellFormed(cv_fixtures))
        /\ \A k \in DOMAIN association :
               /\ \A key \in DOMAIN WellFormed(cv_fixtures)[k] :
                      association[k][key] = WellFormed(cv_fixtures)[k][key]
               /\ \A n \in DOMAIN ocr_text :
                      ~HasBox(ocr_text[n]) =>
                          \A t \in DOMAIN association[k].text_nearby :
                              association[k].text_nearby[t] # Strip(ocr_text[n].text)

\* A candidate without a box of four came before one with a box, and a
\* text block without a box of four was on the page.
C20_Witness ==
    /\ Associated
    /\ Len(cv_fixtures) = 2
    /\ ~HasBox(cv_fixtures[1])
    /\ HasBox(cv_fixtures[2])
    /\ Len(association) = 1
    /\ \E n \in DOMAIN ocr_text : ~HasBox(ocr_text[n])

Labelled == pc = "labelled"

\* a < b for strings, by the code points of their characters.
RECURSIVE Before(_, _)
Before(a, b) ==
    IF b = "" THEN FALSE
    ELSE IF a = "" THEN TRUE
    ELSE IF Head(a) = Head(b) THEN Before(Tail(a), Tail(b))
    ELSE IndexIn(Head(a), CodePoints) < IndexIn(Head(b), CodePoints)

\* C21: the symbols of an associated fixture are in strictly ascending
\* order, so sorted and without duplicates, and its primary_symbol is the
\* first of them, or None when there is none.
C21_SymbolsSortedPrimaryFirst ==
    Labelled =>
        /\ \A i \in 1..(Len(labelled.symbols) - 1) :
               Before(labelled.symbols[i], labelled.symbols[i + 1])
        /\ labelled.symbols # <<>> => labelled.primary_symbol = labelled.symbols[1]
        /\ labelled.symbols = <<>> => labelled.primary_symbol = None

\* A fixture with three symbols or more has been built.
C21_Witness ==
    /\ Labelled
    /\ Len(labelled.symbols) >= 3
    /\ labelled.primary_symbol = labelled.symbols[1]

\* The fixture types in the order of their priority.
Priority == <<"recessed_led", "wallpack", "emergency_exit", "emergency_light", "photocell">>

\* The nearby texts joined by spaces, in upper case.
CombinedText == Upper(Join(nearby, " "))

\* The priorities of the domain patterns found in the combined text.
MatchingPriorities ==
    {k \in DOMAIN Priority : Matches(EmergencyPatterns[Priority[k]], CombinedText, TRUE)}

SomeTextHas(word) == \E i \in DOMAIN nearby : Contains(Upper(nearby[i]), word)

\* C22: the fixture type is that of the first domain pattern, in the order
\* recessed_led, wallpack, emergency_exit, emergency_light, photocell, found
\* in the combined nearby text; failing that emergency_exit when a text has
\* EXIT, else emergency_light when a text has EMERGENCY, else unknown; so
\* it is always one of these six, also when there is no nearby text.
C22_TypeByFixedPriority ==
    Labelled =>
        \A matching \in {MatchingPriorities} :
            /\ labelled.fixture_type
                   \in {Priority[k] : k \in DOMAIN Priority} \cup {"unknown"}
            /\ \A k \in matching :
                   (\A j \in matching : k <= j) => labelled.fixture_type = Priority[k]
            /\ matching = {} =>
                   labelled.fixture_type
                       = IF SomeTextHas("EXIT") THEN "emergency_exit"
                         ELSE IF SomeTextHas("EMERGENCY") THEN "emergency_light"
                         ELSE "unknown"
            /\ nearby = <<>> => labelled.fixture_type = "unknown"

\* The nearby text matches the exit pattern first and the wallpack pattern
\* second, and the fixture is a wallpack.
C22_Witness ==
    /\ Labelled
    /\ nearby = <<"EXIT", "WALLPACK">>
    /\ labelled.fixture_type = "wallpack"

\* C30: the fixture type is unknown exactly when no domain pattern is found
\* in the combined nearby text; when none is found, no text has EXIT or
\* EMERGENCY, so the default classification decides nothing.
C30_DefaultTierNeverDecides ==
    Labelled =>
        \A matching \in {MatchingPriorities} :
            /\ labelled.fixture_type = "unknown" <=> matching = {}
            /\ matching = {} => ~SomeTextHas("EXIT") /\ ~SomeTextHas("EMERGENCY")

\* A fixture whose nearby text matches no domain pattern has been built.
C30_Witness ==
    /\ Labelled
    /\ nearby # <<>>
    /\ MatchingPriorities = {}
    /\ labelled.fixture_type = "unknown"

\* C23: associate_text_with_fixtures on an empty candidate list returns an
\* empty list, whatever the text blocks; and the fallback classification of
\* an empty detection list returns an empty summary and an empty
\* detailed_detections list, whatever the static content; both calls return.
C23_EmptyInputIsNoError ==
    /\ (Associated /\ cv_fixtures = <<>>) =>
           association = <<>> /\ outcome = "returned"
    /\ (OnFallbackPath /\ detections = <<>>) =>
           /\ result = [summary |-> <<>>, detailed_detections |-> <<>>]
           /\ outcome = "returned"

\* The fallback has classified an empty detection list with an empty
\* rulebook.
C23_Witness ==
    /\ OnFallbackPath
    /\ detections = <<>>
    /\ static_content.rulebook = <<>>
    /\ result.summary = <<>>

\* C27: the merged list is the input list, as the call leaves it sorted,
\* with some positions struck out: the records that stay are unaltered and
\* in their order, their confidences never increase along the list, and
\* every position struck out holds a candidate whose IoU with a kept
\* candidate of at least its confidence is above 0.3.
C27_MergedIsSubListOfInput ==
    pc = "merged" =>
        /\ \E kept \in SUBSET DOMAIN all_detections :
               /\ merged_detections = AtIndexes(all_detections, kept)
               /\ \A i \in DOMAIN all_detections \ kept :
                      \E k \in kept :
                          /\ all_detections[k].confidence >= all_detections[i].confidence
                          /\ IouAbove(all_detections[k].bounding_box,
                                      all_detections[i].bounding_box)
        /\ \A i, j \in DOMAIN merged_detections :
               i < j => merged_detections[i].confidence >= merged_detections[j].confidence

\* A candidate was dropped and two of different confidences were kept.
C27_Witness ==
    /\ pc = "merged"
    /\ Len(merged_detections) = 2
    /\ Len(all_detections) = 3
    /\ merged_detections[1].confidence > merged_detections[2].confidence

\* The task has gone through the pages of its document.
PagesProcessed == pc = "idle" /\ pdf # NoResult

\* The name of the p-th page of a document, counted from 1.
SheetOf(p) == "Page " \o ToString(p)

\* The page a record's source_sheet names, 0 when it names none.
SheetPage(rec, pages) ==
    IF \E p \in DOMAIN pages : rec.source_sheet = SheetOf(p)
    THEN CHOOSE p \in DOMAIN pages : rec.source_sheet = SheetOf(p)
    ELSE 0

\* The records of a list name pages of the document, in ascending order.
InPageOrder(list, pages) ==
    /\ \A i \in DOMAIN list : SheetPage(list[i], pages) \in DOMAIN pages
    /\ \A i, j \in DOMAIN list :
           i < j => SheetPage(list[i], pages) <= SheetPage(list[j], pages)

\* What the OCR processor reads under a key on the pages, page after page.
ReadPageByPage(pages, key) ==
    LET upto[k \in 0..Len(pages)] ==
            IF k = 0 THEN <<>> ELSE upto[k - 1] \o OcrProcessImage(pages[k])[key]
    IN  upto[Len(pages)]

\* C25: in the fixture list and in the static content handed to the
\* classifier every record of page p precedes every record of page q when
\* p < q; the combined OCR data hold what was read on page 1, then on page
\* 2, and so on; and each fixture's source_sheet names, counting from 1, a
\* page on which the detector found a candidate of its box and confidence,
\* each page having as many fixtures as the detector found candidates on it.
C25_PageOrderPreserved ==
    PagesProcessed =>
        \A pages \in {pdf.pages} :
            /\ InPageOrder(all_emergency_detections, pages)
            /\ InPageOrder(static_content.rulebook, pages)
            /\ \A key \in {"all_text", "emergency_symbols", "table_data", "general_notes"} :
                   ocr_data[key] = ReadPageByPage(pages, key)
            /\ \A p \in DOMAIN pages :
                   \A found \in {DetectorProcessImage(pages[p]).emergency_fixtures} :
                       /\ Cardinality({i \in DOMAIN all_emergency_detections :
                                          all_emergency_detections[i].source_sheet = SheetOf(p)})
                              = Len(found)
                       /\ \A i \in DOMAIN all_emergency_detections :
                              all_emergency_detections[i].source_sheet = SheetOf(p) =>
                                  \E k \in DOMAIN found :
                                      /\ found[k].bounding_box
                                             = all_emergency_detections[i].bounding_box
                                      /\ found[k].confidence
                                             = all_emergency_detections[i].confidence

\* A document of two pages with different fixtures and a note on each.
C25_Witness ==
    /\ PagesProcessed
    /\ Len(pdf.pages) = 2
    /\ \E i, j \in DOMAIN all_emergency_detections :
           /\ all_emergency_detections[i].source_sheet = "Page 1"
           /\ all_emergency_detections[j].source_sheet = "Page 2"
           /\ all_emergency_detections[i].bounding_box
                  # all_emergency_detections[j].bounding_box
    /\ Len(static_content.rulebook) = 2
    /\ static_content.rulebook[2].source_sheet = "Page 2"

\* C26: no step changes the candidates and the text blocks handed to the
\* associator, nor the detections and the static content handed to the
\* classifier, and once the associator has returned its records no step
\* of its caller changes them.
C26_NoStageMutatesReceivedRecords ==
    [][/\ cv_fixtures' = cv_fixtures
       /\ ocr_text' = ocr_text
       /\ detections' = detections
       /\ static_content' = static_content
       /\ pc = "associated" => association' = association]_vars

\* The document opens and has no page.
ZeroPageDocument == pdf # NoResult /\ pdf.opens /\ pdf.pages = <<>>

\* C24: the task given a document of zero pages does not raise and does
\* not fail, and what its classifier returns is the empty classification:
\* an empty summary and an empty detailed_detections list.
C24_ZeroPagesIsNoError ==
    ZeroPageDocument =>
        /\ pc # "failed"
        /\ outcome # "raised"
        /\ pc = "done" => result = [summary |-> <<>>, detailed_detections |-> <<>>]

\* The place of a status on the way pending, processing, then complete or
\* failed.
StatusRank(status) ==
    CASE status = "pending" -> 1
      [] status = "processing" -> 2
      [] status \in {"complete", "failed"} -> 3

\* C28: no step takes the status of the row back along pending,
\* processing, complete or failed, and no step changes a status that is
\* complete or failed.
C28_StatusMovesOnlyForward ==
    [][processing_result # NoResult =>
           /\ processing_result' # NoResult
           /\ StatusRank(processing_result'.status) >= StatusRank(processing_result.status)
           /\ processing_result.status \in {"complete", "failed"} =>
                  processing_result'.status = processing_result.status]_vars

\* The row is complete with its result, or failed with a message.
Settled ==
    /\ processing_result # NoResult
    /\ \/ processing_result.status = "complete" /\ processing_result.result # NoResult
       \/ processing_result.status = "failed" /\ processing_result.error_message # None

\* C29: the message of the task is put in the broker only when the row is
\* committed as pending, and the task that starts finds the row; a row
\* that is complete holds the classification result and a row that is
\* failed holds a message; and after the response "uploaded" the row
\* becomes complete or failed and the uploaded file is removed.
C29_UploadedJobSettles ==
    /\ [][queue' = TRUE /\ queue = FALSE =>
              processing_result # NoResult /\ processing_result.status = "pending"]_vars
    /\ [](result_record # "none")
    /\ [](processing_result # NoResult =>
              /\ processing_result.status = "complete" => processing_result.result = result
              /\ processing_result.status = "failed" => processing_result.error_message # None)
    /\ (api_pc = "uploaded") ~> (Settled /\ temp_file = FALSE)

====
